---- MODULE Spec2Model ----
(***************************************************************************)
(* State-machine model of the option premium open breakout bot:            *)
(*   backend/bot/trading_engine.py  (TradingEngine)                        *)
(*   backend/bot/tasty_client.py    (TastyClient)                          *)
(*   backend/api/app.py             (administrative close)                 *)
(*                                                                         *)
(* Prices are integers in units of 1/1000 dollar, so that 100.5 is         *)
(* 100500 and the 0.01 floor is 10; thresholds are in 1/100 percent.       *)
(* Arithmetic is exact (the source computes in binary floating point).     *)
(***************************************************************************)
EXTENDS Integers, Sequences, FiniteSets, TLC

VARIABLES
    running,             \* TradingEngine.running
    open_prices_set,     \* TradingEngine.open_prices_set
    clock,               \* datetime.now(): slot of the day, 3 slots per day
    tickers,             \* table tickers: symbol -> row
    trades,              \* table trades: sequence of rows, id = index
    price_cache,         \* table price_cache: <<ticker, option_symbol, date>> -> row
    cyc,                 \* the scheduler thread running run_cycle: position and locals
    session_token,       \* TastyClient.session_token
    token_expires_at,    \* TastyClient.token_expires_at
    now,                 \* datetime.now() in minutes, as read by _is_token_expired
    quote_cache,         \* TastyClient.quote_cache
    subscribed_symbols,  \* TastyClient.subscribed_symbols
    ws_loop,             \* TastyClient.ws_loop: "none", "running", "closed"
    loop_queue,          \* coroutines handed to ws_loop by run_coroutine_threadsafe
    obs,                 \* what the engine operation that just ended was given and returned
    ws,                  \* TastyClient.ws: "none" or "open"
    hs,                  \* _websocket_handler: where the coroutine stands
    transport,           \* the network connection under ws: "none", "up", "down"
    sent,                \* frames sent on the current connection
    rcvd,                \* frames the handshake consumed on the current connection
    keepalive_task,      \* TastyClient.keepalive_task: "none", "running", "cancelled"
    conn,                \* number of _start_websocket_thread calls so far
    closed_with,         \* subscribed_symbols when the handler last ended
    market,              \* what the exchange quotes (FEED_DATA) and how the broker answers orders
    callers,             \* threads inside _ensure_authenticated: position and locals
    bot                  \* TradingBot: running, its scheduler, the thread inside stop()

vars == <<running, open_prices_set, clock, tickers, trades, price_cache, cyc,
          session_token, token_expires_at, now, quote_cache, subscribed_symbols,
          ws_loop, loop_queue, obs, ws, hs, transport, sent, rcvd, keepalive_task,
          conn, closed_with, market, callers, bot>>

conVars == <<ws_loop, ws, hs, transport, sent, rcvd, keepalive_task, conn, closed_with,
             market, callers, bot>>

----------------------------------------------------------------------------
(* Bounds of the model *)

MaxTrades == 2
MaxClock == 2
MaxQueue == 1
MaxConn == 2
MaxNow == 8

----------------------------------------------------------------------------
(* Program constants *)

DAYS_TO_EXPIRATION_MIN == 0
DAYS_TO_EXPIRATION_MAX == 7
TokenSafetyMargin == 10
NoExpiry == -1

None == "None"

\* what get_option_chain can return: None, an empty dictionary, the parsed chain
ChainAnswers == {"fail", "empty", "ok"}

\* what session.commit() does in execute_trade: it returns, or it raises
CommitAnswers == {"ok", "error"}

----------------------------------------------------------------------------
(* Generic helpers *)

Abs(x) == IF x < 0 THEN 0 - x ELSE x

Max(a, b) == IF a >= b THEN a ELSE b

Get(d, k) == IF k \in DOMAIN d THEN d[k] ELSE 0

Put(d, k, v) == [x \in DOMAIN d \cup {k} |-> IF x = k THEN v ELSE d[x]]

Update(d, e) == [x \in DOMAIN d \cup DOMAIN e |-> IF x \in DOMAIN e THEN e[x] ELSE d[x]]

SelectTypeSeq(s, tt) == SelectSeq(s, LAMBDA o : o.option_type = tt)

----------------------------------------------------------------------------
(* Wall clock *)

Today == clock \div 3 + 1

TimeOfDay == CASE clock % 3 = 0 -> "pre"
               [] clock % 3 = 1 -> "open"
               [] OTHER -> "post"

\* variant: the trading window is the whole day
always_trading_hours == TRUE

is_trading_hours == TimeOfDay = "open"

----------------------------------------------------------------------------
(* Instrument symbols.  An underlying is quoted under its ticker; an option *)
(* has an order-routing (OCC) symbol, whose strike field is in 1/1000       *)
(* dollar, and a streamer symbol, whose strike is the decimal number.       *)

Eq(root) == [fmt |-> "eq", root |-> root, cp |-> "-", whole |-> 0, frac |-> 0]

Occ(root, cp, milli) == [fmt |-> "occ", root |-> root, cp |-> cp, whole |-> milli, frac |-> 0]

Dx(root, cp, whole, frac) == [fmt |-> "dx", root |-> root, cp |-> cp, whole |-> whole, frac |-> frac]

occ_to_streamer(s) ==
    IF s.fmt = "occ"
    THEN [fmt |-> "dx", root |-> s.root, cp |-> s.cp,
          whole |-> s.whole \div 1000, frac |-> s.whole % 1000]
    ELSE s

StreamerOf(option_symbol) ==
    IF option_symbol.fmt = "dx" THEN option_symbol ELSE occ_to_streamer(option_symbol)

----------------------------------------------------------------------------
(* OAuth session *)

is_token_expired ==
    IF token_expires_at = NoExpiry THEN TRUE
    ELSE now >= token_expires_at - TokenSafetyMargin

TokenUsable == session_token # None /\ ~is_token_expired

\* _get_access_token: the effect of the exchange answer `ans` on the session
TokenAfter(ans) ==
    IF ans.ok THEN [token |-> ans.token, expires |-> now + ans.expires_in]
    ELSE [token |-> session_token, expires |-> token_expires_at]

\* _ensure_authenticated run to completion by one caller
EnsureAuthenticated(ans) ==
    IF TokenUsable
    THEN [ok |-> TRUE, token |-> session_token, expires |-> token_expires_at]
    ELSE [ok |-> ans.ok] @@ TokenAfter(ans)

----------------------------------------------------------------------------
(* Quote cache *)

MarkOf(bid, ask) == IF bid > 0 /\ ask > 0 THEN (bid + ask) \div 2 ELSE 0

\* _handle_message, one Quote event: the fields other than the timestamp, which
\* no code reads (Stamped sets it where the entry itself is under study)
ApplyQuote(cache, symbol, bid, ask) ==
    LET entry == IF symbol \in DOMAIN cache THEN cache[symbol] ELSE <<>>
    IN  Put(cache, symbol, Update(entry, [bid |-> bid, ask |-> ask, mark |-> MarkOf(bid, ask)]))

\* variant: the entry is replaced by the event's fields
ApplyTradeReplacing(cache, symbol, last) == Put(cache, symbol, [last |-> last])

\* _handle_message, one Trade event: the fields other than the timestamp
ApplyTrade(cache, symbol, last) ==
    LET entry == IF symbol \in DOMAIN cache THEN cache[symbol] ELSE <<>>
    IN  Put(cache, symbol, Update(entry, [last |-> last]))

\* _handle_message: 'timestamp': time.time(), set by either event
Stamped(cache, symbol, ts) == [cache EXCEPT ![symbol] = Update(@, [timestamp |-> ts])]

\* variant: the mark is returned as computed
NoFloor(mark) == mark

FloorMark(mark) == IF mark > 0 THEN mark ELSE 10

\* get_option_quote, first read of the cache
QuoteFirstRead(option_symbol, q) ==
    LET bid == Get(q, "bid")
        ask == Get(q, "ask")
        last == Get(q, "last")
        mark == Get(q, "mark")
        m == IF mark = 0 /\ bid > 0 /\ ask > 0 THEN (bid + ask) \div 2
             ELSE IF mark = 0 THEN last ELSE mark
    IN  [symbol |-> option_symbol, bid |-> bid, ask |-> ask, last |-> last,
         mark |-> FloorMark(m)]

\* get_option_quote, read after the one-second wait
QuoteSecondRead(option_symbol, q) ==
    LET bid == Get(q, "bid")
        ask == Get(q, "ask")
        last == Get(q, "last")
        m == IF bid > 0 /\ ask > 0 THEN (bid + ask) \div 2 ELSE last
    IN  [symbol |-> option_symbol, bid |-> bid, ask |-> ask, last |-> last,
         mark |-> FloorMark(m)]

\* get_underlying_price, either read: 0 stands for None
UnderlyingFromEntry(q) ==
    LET bid == Get(q, "bid")
        ask == Get(q, "ask")
        last == Get(q, "last")
    IN  IF bid > 0 /\ ask > 0 THEN (bid + ask) \div 2
        ELSE IF last > 0 THEN last ELSE 0

----------------------------------------------------------------------------
(* Option chains and at-the-money selection *)

Option(root, cp, strike, date) ==
    [symbol |-> Occ(root, cp, strike * 1000),
     streamer_symbol |-> Dx(root, cp, strike, 0),
     option_type |-> cp, strike_price |-> strike * 1000, expiration_date |-> date]

\* the nested chain the broker serves: expiration date -> options in chain order
ChainOf(root) ==
    IF root = "SPY"
    THEN (3 :> <<Option("SPY", "C", 100, 3), Option("SPY", "P", 100, 3)>>)
    ELSE IF root = "IWM"
    THEN (0 :> <<Option("IWM", "C", 101, 0), Option("IWM", "P", 101, 0)>>)
         @@ (1 :> <<Option("IWM", "C", 95, 1), Option("IWM", "P", 95, 1),
                    Option("IWM", "C", 100, 1), Option("IWM", "P", 100, 1),
                    Option("IWM", "C", 105, 1), Option("IWM", "P", 105, 1)>>)
         @@ (9 :> <<Option("IWM", "C", 101, 9), Option("IWM", "P", 101, 9)>>)
    ELSE IF root = "DIA"
    THEN (3 :> <<Option("DIA", "C", 102, 3), Option("DIA", "C", 98, 3)>>)
         @@ (8 :> <<Option("DIA", "C", 98, 8), Option("DIA", "P", 98, 8),
                    Option("DIA", "C", 102, 8), Option("DIA", "P", 102, 8)>>)
    ELSE (2 :> <<Option(root, "C", 50, 2)>>)

RECURSIVE SortedDates(_)
SortedDates(ds) ==
    IF ds = {} THEN <<>>
    ELSE LET d == CHOOSE x \in ds : \A y \in ds : x <= y
         IN  <<d>> \o SortedDates(ds \ {d})

RECURSIVE ValidOptions(_, _, _, _, _, _)
ValidOptions(chain, dates, target_type, today, dte_min, dte_max) ==
    IF dates = <<>> THEN <<>>
    ELSE LET exp_date == Head(dates)
             dte == exp_date - today
             here == IF dte_min <= dte /\ dte <= dte_max
                     THEN SelectTypeSeq(chain[exp_date], target_type)
                     ELSE <<>>
         IN  here \o ValidOptions(chain, Tail(dates), target_type, today, dte_min, dte_max)

\* variant: the last of the minimal ones
LastClosest(valid, underlying_price) ==
    LET dist(i) == Abs(valid[i].strike_price - underlying_price)
        best == CHOOSE i \in 1..Len(valid) :
                    /\ \A j \in 1..Len(valid) : dist(i) <= dist(j)
                    /\ \A j \in (i + 1)..Len(valid) : dist(j) > dist(i)
    IN  valid[best]

\* min(valid_options, key = |strike - underlying|): the first of the minimal ones
FirstClosest(valid, underlying_price) ==
    LET dist(i) == Abs(valid[i].strike_price - underlying_price)
        best == CHOOSE i \in 1..Len(valid) :
                    /\ \A j \in 1..Len(valid) : dist(i) <= dist(j)
                    /\ \A j \in 1..(i - 1) : dist(j) > dist(i)
    IN  valid[best]

\* find_atm_option on a fetched chain; <<>> stands for None
FindAtmInChain(chain, option_type, underlying_price, today, dte_min, dte_max) ==
    LET target_type == IF option_type = "CALL" THEN "C" ELSE "P"
        valid == ValidOptions(chain, SortedDates(DOMAIN chain), target_type,
                              today, dte_min, dte_max)
    IN  IF valid = <<>> THEN <<>>
        ELSE LET atm == FirstClosest(valid, underlying_price)
             IN  <<[symbol |-> atm.symbol, streamer_symbol |-> atm.streamer_symbol,
                    option_type |-> option_type, strike |-> atm.strike_price,
                    expiration |-> atm.expiration_date]>>

\* variant: the chain is searched whatever get_option_chain returned
find_atm_option_unchecked(root, option_type, underlying_price, fetch, today) ==
    FindAtmInChain(ChainOf(root), option_type, underlying_price, today,
                   DAYS_TO_EXPIRATION_MIN, DAYS_TO_EXPIRATION_MAX)

\* find_atm_option: `fetch` is what get_option_chain returned
\* ("fail" for None, "empty" for {}, "ok" for the parsed chain)
find_atm_option(root, option_type, underlying_price, fetch, today) ==
    IF fetch # "ok" THEN <<>>
    ELSE FindAtmInChain(ChainOf(root), option_type, underlying_price, today,
                        DAYS_TO_EXPIRATION_MIN, DAYS_TO_EXPIRATION_MAX)

----------------------------------------------------------------------------
(* Open prices *)

\* variant: the cached row is never taken as known
OpenPriceForgotten(rows, key) == FALSE

OpenPriceKnown(rows, key) ==
    key \in DOMAIN rows /\ rows[key].open_price > 0

\* get_or_set_open_price: the table after the call and the value returned
get_or_set_open_price(rows, key, current_price, underlying_price) ==
    IF OpenPriceKnown(rows, key)
    THEN [rows |-> [rows EXCEPT ![key].current_price = current_price,
                                ![key].underlying_price = underlying_price],
          ret |-> rows[key].open_price]
    ELSE [rows |-> Put(rows, key, [open_price |-> current_price,
                                   current_price |-> current_price,
                                   high_price |-> current_price,
                                   low_price |-> current_price,
                                   underlying_price |-> underlying_price]),
          ret |-> current_price]

----------------------------------------------------------------------------
(* Entry signal and order sizing *)

\* variant: pct_change > threshold
ThresholdExceeded(current_price, open_price, threshold) ==
    (current_price - open_price) * 10000 > threshold * open_price

\* pct_change >= threshold, with pct_change = (current - open) / open * 100
ThresholdMet(current_price, open_price, threshold) ==
    (current_price - open_price) * 10000 >= threshold * open_price

\* variant: int(capital_per_trade / (entry_price * 100)), without the minimum
QuantityUnclamped(capital_per_trade, entry_price) ==
    (capital_per_trade * 10) \div entry_price

\* max(1, int(capital_per_trade / (entry_price * 100)))
Quantity(capital_per_trade, entry_price) ==
    Max(1, (capital_per_trade * 10) \div entry_price)

OpenTrades == {i \in 1..Len(trades) : trades[i].status = "OPEN"}

\* variant: the query for an existing OPEN trade finds nothing
NoExistingCheck(ticker, option_symbol) == FALSE

HasOpenPosition(ticker, option_symbol) ==
    \E i \in OpenTrades : trades[i].ticker = ticker /\ trades[i].option_symbol = option_symbol

OpenPositions(ticker) == Cardinality({i \in OpenTrades : trades[i].ticker = ticker})

\* variant: open_positions > max_positions
CapExceeded(ticker, max_positions) == OpenPositions(ticker) > max_positions

CapReached(ticker, max_positions) == OpenPositions(ticker) >= max_positions

\* TastyClient.place_order: `resp` is what the broker's endpoint did;
\* the value returned, None when no order was placed
place_order(auth_ok, resp) ==
    IF ~auth_ok THEN None
    ELSE IF resp = "http_error" \/ resp = "exception" THEN None
    ELSE IF resp = "ok_id" THEN "ORDER"
    ELSE "DRY_RUN"

NewTrade(signal, quantity, order_id) ==
    [ticker |-> signal.ticker, option_type |-> signal.option_type,
     option_symbol |-> signal.option_symbol, entry_price |-> signal.entry_price,
     exit_price |-> 0, quantity |-> quantity, status |-> "OPEN", pnl |-> 0,
     open_price_ref |-> signal.open_price, order_id |-> order_id]

PnL(entry_price, mark, quantity) == (mark - entry_price) * quantity * 100

----------------------------------------------------------------------------
(* The scheduler thread: run_cycle and what it calls *)

NoCfg == [symbol |-> "-", threshold |-> 0, max_positions |-> 0, capital_per_trade |-> 0]

IdleCyc == [pc |-> "idle", queue |-> <<>>, cfg |-> NoCfg, otype |-> "-", und |-> 0,
            opt |-> <<>>, sig |-> <<>>, stale |-> FALSE, snap |-> <<>>, dirty |-> <<>>]

\* the rows of table tickers in primary-key order
TickerOrder == SelectSeq(<<"SPY", "QQQ">>, LAMBDA t : t \in DOMAIN tickers)

RowOf(symbol) ==
    [symbol |-> symbol, threshold |-> tickers[symbol].threshold,
     max_positions |-> tickers[symbol].max_positions,
     capital_per_trade |-> tickers[symbol].capital_per_trade]

\* session.query(Ticker).filter_by(enabled=True).all()
RECURSIVE EnabledRows(_)
EnabledRows(order) ==
    IF order = <<>> THEN <<>>
    ELSE (IF tickers[Head(order)].enabled THEN <<RowOf(Head(order))>> ELSE <<>>)
         \o EnabledRows(Tail(order))

\* the answers the token endpoint may give to one exchange request
ExchangeAnswers ==
    {[ok |-> FALSE, token |-> None, expires_in |-> 0]}
    \cup {[ok |-> TRUE, token |-> "tok", expires_in |-> e] : e \in {14}}

\* get_underlying_price / get_option_quote, lines before the cache is read:
\* what asking the streaming loop for `symbol` does
SubscribeIntent(symbol) ==
    IF symbol \in subscribed_symbols \/ ws_loop = "none" THEN "skip"
    ELSE IF ws_loop = "closed" THEN "raise"
    ELSE "submit"

QueueAfterIntent(symbol) ==
    IF SubscribeIntent(symbol) = "submit" THEN Append(loop_queue, symbol) ELSE loop_queue

IntentFits(symbol) ==
    SubscribeIntent(symbol) = "submit" => Len(loop_queue) < MaxQueue

\* process_ticker / run_cycle: where the thread goes once an entry check is over
NextTicker(c) ==
    IF c.queue = <<>> THEN [IdleCyc EXCEPT !.pc = "upd"]
    ELSE IF c.stale THEN IdleCyc
    ELSE [IdleCyc EXCEPT !.pc = "und", !.queue = Tail(c.queue), !.cfg = Head(c.queue),
                         !.otype = "CALL"]

\* variant: the same option type is checked again
AfterTypeAgain(c) ==
    [c EXCEPT !.pc = "und", !.und = 0, !.opt = <<>>, !.sig = <<>>]

AfterType(c) ==
    IF c.otype = "CALL"
    THEN [c EXCEPT !.pc = "und", !.otype = "PUT", !.und = 0, !.opt = <<>>, !.sig = <<>>]
    ELSE NextTicker(c)

\* no engine operation has just ended
NoObs == [op |-> "-"]

\* run_cycle returned at one of its gates
ReturnedObs == [op |-> "run_cycle", running |-> running, time |-> TimeOfDay]

\* run_cycle up to the first ticker
RunCycle ==
    /\ cyc.pc = "idle"
    /\ IF ~running THEN UNCHANGED <<open_prices_set, cyc>> /\ obs' = ReturnedObs
       ELSE /\ open_prices_set' = (IF TimeOfDay = "pre" THEN FALSE ELSE open_prices_set)
            /\ IF ~is_trading_hours \/ EnabledRows(TickerOrder) = <<>>
               THEN UNCHANGED cyc /\ obs' = ReturnedObs
               ELSE LET rows == EnabledRows(TickerOrder)
                    IN  /\ cyc' = [IdleCyc EXCEPT !.pc = "und", !.queue = Tail(rows),
                                                  !.cfg = Head(rows), !.otype = "CALL"]
                        /\ obs' = NoObs
    /\ UNCHANGED <<running, clock, tickers, trades, price_cache, session_token,
                   token_expires_at, now, quote_cache, subscribed_symbols, conVars,
                   loop_queue>>

NoSignalObs(c, und, opt, quote) ==
    [op |-> "check_entry_signal", ticker |-> c.cfg.symbol, otype |-> c.otype,
     threshold |-> c.cfg.threshold, und |-> und, opt |-> opt, quote |-> quote,
     open_price |-> 0, stored |-> 0, sig |-> <<>>]

\* check_entry_signal: get_underlying_price, first read of the cache
CheckUnderlying ==
    /\ cyc.pc = "und"
    /\ LET symbol == Eq(cyc.cfg.symbol)
       IN  /\ IntentFits(symbol)
           /\ loop_queue' = QueueAfterIntent(symbol)
           /\ IF SubscribeIntent(symbol) = "raise"
              THEN /\ cyc' = AfterType(cyc)
                   /\ obs' = NoSignalObs(cyc, 0, <<>>, <<>>)
              ELSE IF symbol \notin DOMAIN quote_cache
              THEN /\ cyc' = [cyc EXCEPT !.pc = "und_retry"]
                   /\ obs' = NoObs
              ELSE IF UnderlyingFromEntry(quote_cache[symbol]) = 0
              THEN /\ cyc' = AfterType(cyc)
                   /\ obs' = NoSignalObs(cyc, 0, <<>>, <<>>)
              ELSE /\ cyc' = [cyc EXCEPT !.pc = "opt",
                                         !.und = UnderlyingFromEntry(quote_cache[symbol])]
                   /\ obs' = NoObs
    /\ UNCHANGED <<running, open_prices_set, clock, tickers, trades, price_cache,
                   session_token, token_expires_at, now, quote_cache,
                   subscribed_symbols, conVars>>

\* variant: the second read waits until the streaming loop has stored an entry
UnderlyingRetryWaiting ==
    /\ cyc.pc = "und_retry"
    /\ Eq(cyc.cfg.symbol) \in DOMAIN quote_cache
    /\ LET price == UnderlyingFromEntry(quote_cache[Eq(cyc.cfg.symbol)])
       IN  IF price = 0
           THEN /\ cyc' = AfterType(cyc)
                /\ obs' = NoSignalObs(cyc, 0, <<>>, <<>>)
           ELSE /\ cyc' = [cyc EXCEPT !.pc = "opt", !.und = price]
                /\ obs' = NoObs
    /\ UNCHANGED <<running, open_prices_set, clock, tickers, trades, price_cache,
                   session_token, token_expires_at, now, quote_cache,
                   subscribed_symbols, conVars, loop_queue>>

\* check_entry_signal: get_underlying_price, read after the one-second wait
UnderlyingRetry ==
    /\ cyc.pc = "und_retry"
    /\ LET symbol == Eq(cyc.cfg.symbol)
           price == IF symbol \in DOMAIN quote_cache
                    THEN UnderlyingFromEntry(quote_cache[symbol]) ELSE 0
       IN  IF price = 0
           THEN /\ cyc' = AfterType(cyc)
                /\ obs' = NoSignalObs(cyc, 0, <<>>, <<>>)
           ELSE /\ cyc' = [cyc EXCEPT !.pc = "opt", !.und = price]
                /\ obs' = NoObs
    /\ UNCHANGED <<running, open_prices_set, clock, tickers, trades, price_cache,
                   session_token, token_expires_at, now, quote_cache,
                   subscribed_symbols, conVars, loop_queue>>

\* check_entry_signal from the option quote on: open price, percentage change, threshold
Decide(c, opt, quote) ==
    IF quote.mark <= 0
    THEN /\ cyc' = AfterType(c)
         /\ obs' = NoSignalObs(c, c.und, <<opt>>, <<quote>>)
         /\ UNCHANGED price_cache
    ELSE LET key == <<c.cfg.symbol, opt.symbol, Today>>
             res == get_or_set_open_price(price_cache, key, quote.mark, c.und)
             signal == [ticker |-> c.cfg.symbol, option_symbol |-> opt.symbol,
                        option_type |-> c.otype, strike |-> opt.strike,
                        expiration |-> opt.expiration, entry_price |-> quote.mark,
                        open_price |-> res.ret, underlying_price |-> c.und]
             fire == res.ret > 0 /\ ThresholdMet(quote.mark, res.ret, c.cfg.threshold)
             ret == IF fire THEN <<signal>> ELSE <<>>
         IN  /\ price_cache' = res.rows
             /\ obs' = [op |-> "check_entry_signal", ticker |-> c.cfg.symbol,
                        otype |-> c.otype, threshold |-> c.cfg.threshold, und |-> c.und,
                        opt |-> <<opt>>, quote |-> <<quote>>, open_price |-> res.ret,
                        stored |-> res.rows[key].open_price, sig |-> ret]
             /\ cyc' = IF fire
                       THEN [c EXCEPT !.pc = "exec", !.opt = <<opt>>, !.sig = ret,
                                      !.stale = TRUE]
                       ELSE AfterType([c EXCEPT !.stale = TRUE])

\* check_entry_signal: find_atm_option, then get_option_quote's first read
CheckOption ==
    /\ cyc.pc = "opt"
    /\ \E ans \in ExchangeAnswers, fetch \in market.chain :
         LET auth == EnsureAuthenticated(ans)
             found == find_atm_option(cyc.cfg.symbol, cyc.otype, cyc.und,
                                      IF auth.ok THEN fetch ELSE "fail", Today)
         IN  /\ session_token' = auth.token
             /\ token_expires_at' = auth.expires
             /\ IF found = <<>>
                THEN /\ cyc' = AfterType(cyc)
                     /\ obs' = NoSignalObs(cyc, cyc.und, <<>>, <<>>)
                     /\ UNCHANGED <<price_cache, loop_queue>>
                ELSE LET opt == found[1]
                         symbol == StreamerOf(opt.streamer_symbol)
                     IN  /\ IntentFits(symbol)
                         /\ loop_queue' = QueueAfterIntent(symbol)
                         /\ IF SubscribeIntent(symbol) = "raise"
                            THEN /\ cyc' = AfterType(cyc)
                                 /\ obs' = NoSignalObs(cyc, cyc.und, found, <<>>)
                                 /\ UNCHANGED price_cache
                            ELSE IF symbol \notin DOMAIN quote_cache
                            THEN /\ cyc' = [cyc EXCEPT !.pc = "quote_retry", !.opt = found]
                                 /\ obs' = NoObs
                                 /\ UNCHANGED price_cache
                            ELSE Decide(cyc, opt, QuoteFirstRead(opt.streamer_symbol,
                                                                 quote_cache[symbol]))
    /\ UNCHANGED <<running, open_prices_set, clock, tickers, trades, now, quote_cache,
                   subscribed_symbols, conVars>>

\* check_entry_signal: get_option_quote's read after the one-second wait
QuoteRetry ==
    /\ cyc.pc = "quote_retry"
    /\ LET opt == cyc.opt[1]
           symbol == StreamerOf(opt.streamer_symbol)
       IN  IF symbol \notin DOMAIN quote_cache
           THEN /\ cyc' = AfterType(cyc)
                /\ obs' = NoSignalObs(cyc, cyc.und, cyc.opt, <<>>)
                /\ UNCHANGED price_cache
           ELSE Decide(cyc, opt, QuoteSecondRead(opt.streamer_symbol, quote_cache[symbol]))
    /\ UNCHANGED <<running, open_prices_set, clock, tickers, trades, session_token,
                   token_expires_at, now, quote_cache, subscribed_symbols, conVars,
                   loop_queue>>

\* execute_trade
ExecuteTrade ==
    /\ cyc.pc = "exec"
    /\ LET signal == cyc.sig[1]
           seen == [op |-> "execute_trade", signal |-> signal,
                    max_positions |-> cyc.cfg.max_positions,
                    capital_per_trade |-> cyc.cfg.capital_per_trade,
                    existed |-> HasOpenPosition(signal.ticker, signal.option_symbol),
                    open_before |-> OpenPositions(signal.ticker)]
       IN  IF HasOpenPosition(signal.ticker, signal.option_symbol)
              \/ CapReached(signal.ticker, cyc.cfg.max_positions)
           THEN /\ obs' = seen @@ [ret |-> FALSE, sent |-> FALSE, answer |-> "-",
                                   order_id |-> None, quantity |-> 0]
                /\ cyc' = AfterType(cyc)
                /\ UNCHANGED <<trades, session_token, token_expires_at>>
           ELSE \E ans \in ExchangeAnswers,
                   resp \in market.order,
                   saved \in market.commit :
                  LET auth == EnsureAuthenticated(ans)
                      quantity == Quantity(cyc.cfg.capital_per_trade, signal.entry_price)
                      order_id == place_order(auth.ok, resp)
                      committed == order_id # None /\ saved = "ok"
                  IN  /\ session_token' = auth.token
                      /\ token_expires_at' = auth.expires
                      /\ obs' = seen @@ [ret |-> committed, sent |-> auth.ok,
                                         answer |-> IF auth.ok THEN resp ELSE "-",
                                         order_id |-> order_id, quantity |-> quantity]
                      /\ cyc' = AfterType(cyc)
                      /\ IF ~committed
                         THEN UNCHANGED trades
                         ELSE /\ Len(trades) < MaxTrades
                              /\ trades' = Append(trades, NewTrade(signal, quantity, order_id))
    /\ UNCHANGED <<running, open_prices_set, clock, tickers, price_cache, now,
                   quote_cache, subscribed_symbols, conVars, loop_queue>>

\* update_positions: the query of the OPEN trades
UpdLoad ==
    /\ cyc.pc = "upd"
    /\ obs' = NoObs
    /\ cyc' = IF OpenTrades = {} THEN IdleCyc
              ELSE [IdleCyc EXCEPT !.pc = "upd_quote",
                                   !.snap = SelectSeq([i \in 1..Len(trades) |->
                                                         [id |-> i, row |-> trades[i]]],
                                                      LAMBDA t : t.row.status = "OPEN")]
    /\ UNCHANGED <<running, open_prices_set, clock, tickers, trades, price_cache,
                   session_token, token_expires_at, now, quote_cache,
                   subscribed_symbols, conVars, loop_queue>>

\* update_positions: trade.exit_price and trade.pnl set on the loaded object
Marked(c, quote) ==
    LET t == Head(c.snap)
        next == IF Len(c.snap) = 1 THEN "upd_commit" ELSE "upd_quote"
    IN  IF quote # <<>> /\ quote[1].mark > 0
        THEN [c EXCEPT !.pc = next, !.snap = Tail(c.snap),
                       !.dirty = Append(c.dirty,
                                        [id |-> t.id, exit_price |-> quote[1].mark,
                                         pnl |-> PnL(t.row.entry_price, quote[1].mark,
                                                     t.row.quantity),
                                         was_exit |-> t.row.exit_price,
                                         was_pnl |-> t.row.pnl])]
        ELSE [c EXCEPT !.pc = next, !.snap = Tail(c.snap)]

\* update_positions: get_option_quote for the next loaded trade, first read
UpdQuote ==
    /\ cyc.pc = "upd_quote"
    /\ LET t == Head(cyc.snap)
           symbol == StreamerOf(t.row.option_symbol)
       IN  /\ IntentFits(symbol)
           /\ loop_queue' = QueueAfterIntent(symbol)
           /\ cyc' = IF SubscribeIntent(symbol) = "raise" THEN Marked(cyc, <<>>)
                     ELSE IF symbol \notin DOMAIN quote_cache
                     THEN [cyc EXCEPT !.pc = "upd_retry"]
                     ELSE Marked(cyc, <<QuoteFirstRead(t.row.option_symbol,
                                                       quote_cache[symbol])>>)
    /\ obs' = NoObs
    /\ UNCHANGED <<running, open_prices_set, clock, tickers, trades, price_cache,
                   session_token, token_expires_at, now, quote_cache,
                   subscribed_symbols, conVars>>

\* update_positions: get_option_quote's read after the one-second wait
UpdRetry ==
    /\ cyc.pc = "upd_retry"
    /\ LET t == Head(cyc.snap)
           symbol == StreamerOf(t.row.option_symbol)
       IN  cyc' = IF symbol \notin DOMAIN quote_cache THEN Marked(cyc, <<>>)
                  ELSE Marked(cyc, <<QuoteSecondRead(t.row.option_symbol,
                                                     quote_cache[symbol])>>)
    /\ obs' = NoObs
    /\ UNCHANGED <<running, open_prices_set, clock, tickers, trades, price_cache,
                   session_token, token_expires_at, now, quote_cache,
                   subscribed_symbols, conVars, loop_queue>>

RECURSIVE Flush(_, _)
Flush(rows, dirty) ==
    IF dirty = <<>> THEN rows
    ELSE LET d == Head(dirty)
             e == IF d.exit_price # d.was_exit THEN d.exit_price ELSE rows[d.id].exit_price
             p == IF d.pnl # d.was_pnl THEN d.pnl ELSE rows[d.id].pnl
         IN  Flush([rows EXCEPT ![d.id].exit_price = e, ![d.id].pnl = p], Tail(dirty))

\* update_positions: session.commit() writes, by primary key, the columns whose
\* value differs from the one loaded
UpdCommit ==
    /\ cyc.pc = "upd_commit"
    /\ trades' = Flush(trades, cyc.dirty)
    /\ cyc' = IdleCyc
    /\ obs' = NoObs
    /\ UNCHANGED <<running, open_prices_set, clock, tickers, price_cache,
                   session_token, token_expires_at, now, quote_cache,
                   subscribed_symbols, conVars, loop_queue>>

----------------------------------------------------------------------------
(* Administrative actions (api/app.py, run.py) *)

\* POST /api/positions/{id}/close
ClosePosition(id) ==
    /\ id \in 1..Len(trades)
    /\ trades[id].status = "OPEN"
    /\ LET exit_price == trades[id].entry_price + trades[id].entry_price \div 100
       IN  trades' = [trades EXCEPT ![id].exit_price = exit_price,
                                    ![id].status = "CLOSED",
                                    ![id].pnl = PnL(trades[id].entry_price, exit_price,
                                                    trades[id].quantity)]
    /\ UNCHANGED <<running, open_prices_set, clock, tickers, price_cache, cyc,
                   session_token, token_expires_at, now, quote_cache,
                   subscribed_symbols, conVars, loop_queue, obs>>

\* TradingEngine.start
Start ==
    /\ ~running
    /\ running' = TRUE
    /\ open_prices_set' = FALSE
    /\ UNCHANGED <<clock, tickers, trades, price_cache, cyc, session_token,
                   token_expires_at, now, quote_cache, subscribed_symbols, conVars,
                   loop_queue, obs>>

\* TradingEngine.stop
Stop ==
    /\ running
    /\ running' = FALSE
    /\ UNCHANGED <<open_prices_set, clock, tickers, trades, price_cache, cyc,
                   session_token, token_expires_at, now, quote_cache,
                   subscribed_symbols, conVars, loop_queue, obs>>

\* time passes from one slot of the day to the next; a tick, which lasts seconds
\* (the waits are bounded and the HTTP client times out), does not last the night
AdvanceClock ==
    /\ clock < MaxClock
    /\ TimeOfDay = "post" => cyc.pc = "idle"
    /\ clock' = clock + 1
    /\ now' = now + 20
    /\ UNCHANGED <<running, open_prices_set, tickers, trades, price_cache, cyc,
                   session_token, token_expires_at, quote_cache, subscribed_symbols,
                   conVars, loop_queue, obs>>

----------------------------------------------------------------------------
(* The streaming thread: the event loop of _start_websocket_thread *)

Frame(type) == [type |-> type, symbols |-> {}]

SubscriptionFrame(symbols) == [type |-> "FEED_SUBSCRIPTION", symbols |-> symbols]

\* the symbols carried by the FEED_SUBSCRIPTION frames of the current connection
SentSymbols == UNION {sent[i].symbols : i \in 1..Len(sent)}

\* variant: every requested symbol is added, subscribed or not
AddListAll(symbols) == symbols

\* _subscribe_symbols: the symbols add_list is built for
AddList(symbols) == {symbol \in symbols : symbol \notin subscribed_symbols}

\* _subscribe_symbols([symbol]), run by the loop for the oldest request
SubscribeTask ==
    /\ ws_loop = "running"
    /\ loop_queue # <<>>
    /\ loop_queue' = Tail(loop_queue)
    /\ LET add_list == AddList({Head(loop_queue)})
       IN  IF ws = "none" \/ add_list = {}
           THEN UNCHANGED <<subscribed_symbols, sent>>
           ELSE /\ subscribed_symbols' = subscribed_symbols \cup add_list
                /\ sent' = IF transport = "up"
                           THEN Append(sent, SubscriptionFrame(add_list))
                           ELSE sent
    /\ UNCHANGED <<running, open_prices_set, clock, tickers, trades, price_cache, cyc,
                   session_token, token_expires_at, now, quote_cache, ws_loop, obs, ws,
                   hs, transport, rcvd, keepalive_task, conn, closed_with, market, callers, bot>>

\* the events the feed may carry for a symbol
QuotePrices(symbol) == IF symbol.fmt = "eq" THEN {} ELSE market.option

TradePrices(symbol) == IF symbol.fmt = "eq" THEN market.underlying ELSE {}

\* _handle_message for a FEED_DATA frame holding one Quote event
FeedQuote ==
    /\ hs = "streaming" /\ transport = "up"
    /\ \E symbol \in SentSymbols : \E p \in QuotePrices(symbol) :
         quote_cache' = ApplyQuote(quote_cache, symbol, p, p)
    /\ UNCHANGED <<running, open_prices_set, clock, tickers, trades, price_cache, cyc,
                   session_token, token_expires_at, now, subscribed_symbols,
                   loop_queue, obs, conVars>>

\* _handle_message for a FEED_DATA frame holding one Trade event
FeedTrade ==
    /\ hs = "streaming" /\ transport = "up"
    /\ \E symbol \in SentSymbols : \E p \in TradePrices(symbol) :
         quote_cache' = ApplyTrade(quote_cache, symbol, p)
    /\ UNCHANGED <<running, open_prices_set, clock, tickers, trades, price_cache, cyc,
                   session_token, token_expires_at, now, subscribed_symbols,
                   loop_queue, obs, conVars>>

----------------------------------------------------------------------------
(* The engine next to a connected client *)

Handshake == <<Frame("SETUP"), Frame("AUTH"), Frame("CHANNEL_REQUEST"), Frame("FEED_SETUP")>>

Acks == <<"SETUP", "AUTH_STATE", "AUTH_STATE", "CHANNEL_OPENED", "FEED_CONFIG">>

CallerIds == {"cycle", "api"}

IdleCallers == [c \in CallerIds |-> "idle"]

\* TradingBot after initialize(): the job is added, the scheduler not started
NoBot ==
    [running |-> FALSE, scheduler |-> "stopped", job |-> TRUE, extra |-> 0, pc |-> "idle"]

\* a client whose connect() returned true and whose handshake is over
InitStream ==
    /\ quote_cache = <<>>
    /\ subscribed_symbols = {}
    /\ ws_loop = "running"
    /\ loop_queue = <<>>
    /\ ws = "open"
    /\ hs = "streaming"
    /\ transport = "up"
    /\ sent = Handshake
    /\ rcvd = Acks
    /\ keepalive_task = "running"
    /\ conn = 1
    /\ closed_with = {}
    /\ callers = IdleCallers

\* the token connect() obtained
InitToken ==
    /\ session_token = "tok"
    /\ token_expires_at = 14
    /\ now = 0

\* a connected client and an engine not yet started
InitEngine ==
    /\ InitStream
    /\ bot = NoBot
    /\ InitToken
    /\ running = FALSE
    /\ open_prices_set = FALSE
    /\ cyc = IdleCyc
    /\ obs = NoObs

OpenRow(open_price, current_price) ==
    [open_price |-> open_price, current_price |-> current_price, high_price |-> open_price,
     low_price |-> open_price, underlying_price |-> 101000]

\* a position opened on an earlier day, on the option that was at the money then
EarlierTrade ==
    [ticker |-> "SPY", option_type |-> "CALL", option_symbol |-> Occ("SPY", "C", 105000),
     entry_price |-> 100500, exit_price |-> 0, quantity |-> 1, status |-> "OPEN",
     pnl |-> 0, open_price_ref |-> 100000, order_id |-> "ORDER"]

\* the bot restarted inside the trading window of day 1, on the database its
\* earlier run left: the open prices of the day are recorded, and a position may
\* be open; the options trade above their open, as that run saw them last
Init ==
    /\ InitEngine
    /\ clock = 1
    /\ tickers \in [{"SPY"} -> [enabled : {TRUE}, threshold : {50},
                                max_positions : {1, 2}, capital_per_trade : {500}]]
    /\ market = [option |-> {100500}, underlying |-> {101000},
                 order |-> {"http_error", "ok_id"}, chain |-> ChainAnswers, commit |-> CommitAnswers]
    /\ price_cache = (<<"SPY", Occ("SPY", "C", 100000), 1>> :> OpenRow(100000, 100500))
                  @@ (<<"SPY", Occ("SPY", "P", 100000), 1>> :> OpenRow(100000, 100500))
    /\ trades \in {<<>>, <<EarlierTrade>>}

Next ==
    \/ Start
    \/ AdvanceClock
    \/ RunCycle
    \/ CheckUnderlying
    \/ UnderlyingRetry
    \/ CheckOption
    \/ QuoteRetry
    \/ ExecuteTrade
    \/ UpdLoad
    \/ UpdQuote
    \/ UpdRetry
    \/ UpdCommit
    \/ \E id \in 1..MaxTrades : ClosePosition(id)
    \/ SubscribeTask
    \/ FeedQuote
    \/ FeedTrade

Spec == Init /\ [][Next]_vars

----------------------------------------------------------------------------
(* The entry check alone: a ticker whose max_positions is 0 opens nothing, *)
(* and the option's quotes move between no price, the open and above it    *)

InitSignal ==
    /\ InitEngine
    /\ clock = 0
    /\ tickers \in [{"SPY"} -> [enabled : {TRUE}, threshold : {50, 51},
                                max_positions : {0}, capital_per_trade : {500}]]
    /\ market = [option |-> {100000, 100500}, underlying |-> {101000},
                 order |-> {"ok_id"}, chain |-> ChainAnswers, commit |-> CommitAnswers]
    /\ price_cache = <<>>
    /\ trades = <<>>

NextSignal ==
    \/ Start
    \/ Stop
    \/ AdvanceClock
    \/ RunCycle
    \/ CheckUnderlying
    \/ UnderlyingRetry
    \/ CheckOption
    \/ QuoteRetry
    \/ ExecuteTrade
    \/ UpdLoad
    \/ SubscribeTask
    \/ FeedQuote
    \/ FeedTrade

SpecSignal == InitSignal /\ [][NextSignal]_vars

----------------------------------------------------------------------------
(* execute_trade alone: signals of several prices, tickers of several       *)
(* capital_per_trade, and a broker that answers an order in every way        *)

OrderSignal(entry_price) ==
    [ticker |-> "SPY", option_symbol |-> Occ("SPY", "C", 100000), option_type |-> "CALL",
     strike |-> 100000, expiration |-> 3, entry_price |-> entry_price,
     open_price |-> 10, underlying_price |-> 101000]

InitOrder ==
    /\ InitStream
    /\ bot = NoBot
    /\ InitToken
    /\ running = TRUE
    /\ open_prices_set = FALSE
    /\ clock = 1
    /\ obs = NoObs
    /\ tickers \in [{"SPY"} -> [enabled : {TRUE}, threshold : {50}, max_positions : {2},
                                capital_per_trade : {0, 100, 237, 500, 1000}]]
    /\ market = [option |-> {100500}, underlying |-> {101000},
                 order |-> {"http_error", "exception", "ok_id", "ok_no_id"},
                 chain |-> ChainAnswers, commit |-> CommitAnswers]
    /\ price_cache = <<>>
    /\ trades = <<>>
    /\ \E entry_price \in {10, 2370, 5000, 6000, 100500} :
         cyc = [IdleCyc EXCEPT !.pc = "exec", !.cfg = RowOf("SPY"), !.otype = "CALL",
                               !.und = 101000, !.sig = <<OrderSignal(entry_price)>>,
                               !.stale = TRUE]

NextOrder == ExecuteTrade

SpecOrder == InitOrder /\ [][NextOrder]_vars

----------------------------------------------------------------------------
(* The streaming connection: connect, _start_websocket_thread and the       *)
(* coroutine _websocket_handler                                              *)

dbVars == <<running, open_prices_set, clock, tickers, trades, price_cache, cyc, obs>>

\* the frame that acknowledges the step the handler waits in
ExpectedAck(h) ==
    CASE h = "await_setup" -> "SETUP"
      [] h = "await_auth_state" -> "AUTH_STATE"
      [] h = "await_authorized" -> "AUTH_STATE"
      [] h = "await_channel" -> "CHANNEL_OPENED"
      [] OTHER -> "FEED_CONFIG"

\* what the server may answer while the handler waits in h
ServerFrames(h) == {ExpectedAck(h), "ERROR"}

\* where the handler goes after a recv in h, and the frame it sends on the way
AfterRecv(h) ==
    CASE h = "await_setup" -> [hs |-> "await_auth_state", send |-> <<>>]
      [] h = "await_auth_state" -> [hs |-> "await_authorized", send |-> <<Frame("AUTH")>>]
      [] h = "await_authorized" -> [hs |-> "await_channel",
                                    send |-> <<Frame("CHANNEL_REQUEST")>>]
      [] h = "await_channel" -> [hs |-> "await_config", send |-> <<Frame("FEED_SETUP")>>]
      [] OTHER -> [hs |-> "streaming", send |-> <<>>]

Awaiting == {"await_setup", "await_auth_state", "await_authorized", "await_channel",
             "await_config"}

\* connect(): authentication, the accounts and streaming-token requests, then
\* _start_websocket_thread up to its time.sleep(3)
Connect ==
    /\ hs \in {"none", "done"}
    /\ conn < MaxConn
    /\ \E ans \in ExchangeAnswers, rest \in {"ok", "fail"} :
         LET auth == EnsureAuthenticated(ans)
         IN  /\ session_token' = auth.token
             /\ token_expires_at' = auth.expires
             /\ IF auth.ok /\ rest = "ok"
                THEN /\ ws_loop' = "running"
                     /\ loop_queue' = <<>>
                     /\ hs' = "connecting"
                     /\ conn' = conn + 1
                     /\ sent' = <<>>
                     /\ rcvd' = <<>>
                     /\ transport' = "none"
                     /\ obs' = [op |-> "connect", pc |-> "sleep"]
                ELSE /\ obs' = [op |-> "connect", pc |-> "returned", ret |-> FALSE]
                     /\ UNCHANGED <<ws_loop, loop_queue, hs, conn, sent, rcvd, transport>>
    /\ UNCHANGED <<running, open_prices_set, clock, tickers, trades, price_cache, cyc,
                   now, quote_cache, subscribed_symbols, ws, keepalive_task,
                   closed_with, market, callers, bot>>

\* variant: the finally block clears ws and leaves the keepalive task alone
HandlerExitKeepalive ==
    /\ ws' = "none"
    /\ keepalive_task' = keepalive_task
    /\ hs' = "done"
    /\ ws_loop' = "closed"
    /\ loop_queue' = <<>>
    /\ closed_with' = subscribed_symbols

\* _websocket_handler: the finally block, and the loop closed by run_websocket
HandlerExit ==
    /\ ws' = "none"
    /\ keepalive_task' = IF keepalive_task = "none" THEN "none" ELSE "cancelled"
    /\ hs' = "done"
    /\ ws_loop' = "closed"
    /\ loop_queue' = <<>>
    /\ closed_with' = subscribed_symbols

\* _websocket_handler: websockets.connect, then SETUP is sent
WsOpen ==
    /\ hs = "connecting"
    /\ \E ok \in BOOLEAN :
         IF ok
         THEN /\ ws' = "open"
              /\ transport' = "up"
              /\ sent' = <<Frame("SETUP")>>
              /\ hs' = "await_setup"
              /\ UNCHANGED <<keepalive_task, ws_loop, loop_queue, closed_with>>
         ELSE HandlerExit /\ UNCHANGED <<transport, sent>>
    /\ UNCHANGED <<dbVars, session_token, token_expires_at, now, quote_cache,
                   subscribed_symbols, rcvd, conn, market, callers,
                   bot>>

\* _websocket_handler: one `await websocket.recv()` of the handshake returns a
\* frame; the handler logs it and goes on
HandshakeRecv ==
    /\ hs \in Awaiting
    /\ transport = "up"
    /\ \E f \in ServerFrames(hs) :
         /\ rcvd' = Append(rcvd, f)
         /\ sent' = sent \o AfterRecv(hs).send
         /\ hs' = AfterRecv(hs).hs
         /\ keepalive_task' = IF AfterRecv(hs).hs = "streaming" THEN "running"
                              ELSE keepalive_task
    /\ UNCHANGED <<dbVars, session_token, token_expires_at, now, quote_cache,
                   subscribed_symbols, ws_loop, loop_queue, ws, transport, conn,
                   closed_with, market, callers, bot>>

\* the server or the network closes the connection
TransportDrop ==
    /\ transport = "up"
    /\ transport' = "down"
    /\ UNCHANGED <<dbVars, session_token, token_expires_at, now, quote_cache,
                   subscribed_symbols, ws_loop, loop_queue, ws, hs, sent, rcvd,
                   keepalive_task, conn, closed_with, market, callers, bot>>

\* _websocket_handler: ConnectionClosed is raised in recv or in the message loop
HandlerEnd ==
    /\ hs \in Awaiting \cup {"streaming"}
    /\ transport = "down"
    /\ HandlerExit
    /\ UNCHANGED <<dbVars, session_token, token_expires_at, now, quote_cache,
                   subscribed_symbols, transport, sent, rcvd, conn, market, callers,
                   bot>>

\* the symbols callers ask quotes for
QuotedSymbols == {Eq("SPY"), Dx("SPY", "C", 100, 0)}

\* get_underlying_price / get_option_quote called for `symbol`: the subscription
\* is handed to the loop; the reads of the cache that follow change nothing
AskQuote(symbol) ==
    /\ SubscribeIntent(symbol) = "submit"
    /\ IntentFits(symbol)
    /\ loop_queue' = QueueAfterIntent(symbol)
    /\ UNCHANGED <<dbVars, session_token, token_expires_at, now, quote_cache,
                   subscribed_symbols, conVars>>

InitWs ==
    /\ running = FALSE
    /\ open_prices_set = FALSE
    /\ clock = 0
    /\ tickers \in [{"SPY"} -> [enabled : {TRUE}, threshold : {50}, max_positions : {1},
                                capital_per_trade : {500}]]
    /\ trades = <<>>
    /\ price_cache = <<>>
    /\ cyc = IdleCyc
    /\ obs = NoObs
    /\ session_token = None
    /\ token_expires_at = NoExpiry
    /\ now = 0
    /\ quote_cache = <<>>
    /\ subscribed_symbols = {}
    /\ ws_loop = "none"
    /\ loop_queue = <<>>
    /\ ws = "none"
    /\ hs = "none"
    /\ transport = "none"
    /\ sent = <<>>
    /\ rcvd = <<>>
    /\ keepalive_task = "none"
    /\ conn = 0
    /\ closed_with = {}
    /\ market = [option |-> {100500}, underlying |-> {101000}, order |-> {"ok_id"},
                 chain |-> ChainAnswers, commit |-> CommitAnswers]
    /\ callers = IdleCallers
    /\ bot = NoBot

NextWs ==
    \/ Connect
    \/ WsOpen
    \/ HandshakeRecv
    \/ TransportDrop
    \/ HandlerEnd
    \/ \E symbol \in QuotedSymbols : AskQuote(symbol)
    \/ SubscribeTask
    \/ FeedQuote
    \/ FeedTrade

SpecWs == InitWs /\ [][NextWs]_vars

----------------------------------------------------------------------------
(* The OAuth session under callers in several threads: _ensure_authenticated *)
(* and _get_access_token, statement by statement                             *)

\* _ensure_authenticated: the test of session_token and _is_token_expired
AuthCheck(c) ==
    /\ callers[c] = "idle"
    /\ ~TokenUsable
    /\ callers' = [callers EXCEPT ![c] = "checked"]
    /\ UNCHANGED <<dbVars, session_token, token_expires_at, now, quote_cache,
                   subscribed_symbols, loop_queue, ws_loop, ws, hs, transport, sent,
                   rcvd, keepalive_task, conn, closed_with, market, bot>>

\* _get_access_token: the exchange request is posted
AuthPost(c) ==
    /\ callers[c] = "checked"
    /\ callers' = [callers EXCEPT ![c] = "posted"]
    /\ UNCHANGED <<dbVars, session_token, token_expires_at, now, quote_cache,
                   subscribed_symbols, loop_queue, ws_loop, ws, hs, transport, sent,
                   rcvd, keepalive_task, conn, closed_with, market, bot>>

\* the token endpoint answers with tokens of these lifetimes, in minutes
AuthAnswers ==
    {[ok |-> FALSE, token |-> None, expires_in |-> 0]}
    \cup {[ok |-> TRUE, token |-> "tok", expires_in |-> e] : e \in {11, 14}}

\* _get_access_token: the answer arrives
AuthAnswer(c) ==
    /\ callers[c] = "posted"
    /\ \E ans \in AuthAnswers :
         /\ session_token' = TokenAfter(ans).token
         /\ token_expires_at' = TokenAfter(ans).expires
    /\ callers' = [callers EXCEPT ![c] = "idle"]
    /\ UNCHANGED <<dbVars, now, quote_cache, subscribed_symbols, loop_queue, ws_loop,
                   ws, hs, transport, sent, rcvd, keepalive_task, conn, closed_with,
                   market, bot>>

\* a minute passes
Tick ==
    /\ now < MaxNow
    /\ now' = now + 1
    /\ UNCHANGED <<dbVars, session_token, token_expires_at, quote_cache,
                   subscribed_symbols, loop_queue, conVars>>

InitAuth ==
    /\ InitStream
    /\ bot = NoBot
    /\ running = FALSE
    /\ open_prices_set = FALSE
    /\ clock = 0
    /\ cyc = IdleCyc
    /\ obs = NoObs
    /\ now = 0
    /\ \/ session_token = None /\ token_expires_at = NoExpiry
       \/ session_token = "tok" /\ token_expires_at \in {11, 14}
    /\ tickers \in [{"SPY"} -> [enabled : {TRUE}, threshold : {50}, max_positions : {1},
                                capital_per_trade : {500}]]
    /\ market = [option |-> {100500}, underlying |-> {101000}, order |-> {"ok_id"},
                 chain |-> ChainAnswers, commit |-> CommitAnswers]
    /\ price_cache = <<>>
    /\ trades = <<>>

NextAuth ==
    \/ \E c \in CallerIds : AuthCheck(c)
    \/ \E c \in CallerIds : AuthPost(c)
    \/ \E c \in CallerIds : AuthAnswer(c)
    \/ Tick

SpecAuth == InitAuth /\ [][NextAuth]_vars

\* the callers as run.py wires them: the scheduler's one job is the only thread
\* that calls the REST methods, so a call starts only when no other is in progress
SerialAuthCheck(c) ==
    /\ \A d \in CallerIds : callers[d] = "idle"
    /\ AuthCheck(c)

NextAuthSerial ==
    \/ \E c \in CallerIds : SerialAuthCheck(c)
    \/ \E c \in CallerIds : AuthPost(c)
    \/ \E c \in CallerIds : AuthAnswer(c)
    \/ Tick

SpecAuthSerial == InitAuth /\ [][NextAuthSerial]_vars

----------------------------------------------------------------------------
(* Properties of execute_trade *)

\* the step in which execute_trade runs
ExecuteTradeStep == cyc.pc = "exec" /\ cyc'.pc # "exec"

SameInstrument(t, signal) ==
    t.status = "OPEN" /\ t.ticker = signal.ticker /\ t.option_symbol = signal.option_symbol

OneOpenPerInstrument ==
    \A i, j \in 1..Len(trades) :
        (trades[i].status = "OPEN" /\ SameInstrument(trades[j], trades[i])) => i = j

DuplicateRejected ==
    (ExecuteTradeStep /\ \E i \in 1..Len(trades) : SameInstrument(trades[i], cyc.sig[1]))
        => (trades' = trades /\ obs'.op = "execute_trade" /\ ~obs'.ret)

\* C1: in every reachable state at most one trade with status OPEN exists for a
\* (ticker, option_symbol) pair, and an execute_trade call that finds an OPEN
\* trade for the signal's pair adds no trade and returns false.
AtMostOneOpenPerInstrument == []OneOpenPerInstrument /\ [][DuplicateRejected]_vars

\* execute_trade has just refused a signal whose instrument is already held
DuplicateSignalRefused ==
    /\ obs.op = "execute_trade" /\ obs.existed /\ ~obs.ret
    /\ \E i \in 1..Len(trades) : SameInstrument(trades[i], obs.signal)

OpenCount(ticker) ==
    Cardinality({i \in 1..Len(trades) : trades[i].status = "OPEN" /\ trades[i].ticker = ticker})

WithinCap == \A t \in DOMAIN tickers : OpenCount(t) <= tickers[t].max_positions

CapRejected ==
    (ExecuteTradeStep /\ OpenCount(cyc.sig[1].ticker) >= cyc.cfg.max_positions)
        => (trades' = trades /\ obs'.op = "execute_trade" /\ ~obs'.ret /\ ~obs'.sent)

\* C2: with max_positions fixed and a start within the cap, the OPEN trades of a
\* ticker never outnumber its max_positions, and an execute_trade call that finds
\* the count at or above max_positions adds no trade and places no order.
PositionCapHolds == []WithinCap /\ [][CapRejected]_vars

\* the CALL of a tick was bought, and the PUT signal of the same tick was refused
\* by the cap alone
PutRefusedByCap ==
    /\ obs.op = "execute_trade" /\ ~obs.existed /\ ~obs.ret /\ ~obs.sent
    /\ obs.signal.option_type = "PUT"
    /\ obs.open_before >= obs.max_positions
    /\ \E i \in 1..Len(trades) : trades[i].status = "OPEN" /\ trades[i].option_type = "CALL"
                                 /\ trades[i].option_symbol = Occ("SPY", "C", 100000)

\* C5: every trade row carries an order identifier the broker returned, and
\* execute_trade returns false, adding no trade, whenever the placement yielded
\* none: authentication failure, non-2xx response, exception, or a 2xx response
\* without an order id.
OrderIdFromBroker ==
    /\ \A i \in 1..Len(trades) : trades[i].order_id = "ORDER"
    /\ (obs.op = "execute_trade" /\ ~obs.existed /\ obs.open_before < obs.max_positions
        /\ obs.answer # "ok_id") => ~obs.ret

\* execute_trade went past its two guards and sized an order
OrderSized ==
    obs.op = "execute_trade" /\ ~obs.existed /\ obs.open_before < obs.max_positions

\* C6: the order quantity is max(1, floor(capital_per_trade / (entry_price * 100)))
\* for capital_per_trade >= 0 and entry_price > 0: an integer >= 1, 2 for capital
\* 500 and entry 2.37, and 1 when one contract costs more than capital_per_trade
\* (capital 500, entry 6.00); the trade row carries that quantity.
QuantityIsClampedFloor ==
    /\ Quantity(500, 2370) = 2
    /\ Quantity(500, 6000) = 1
    /\ OrderSized =>
         LET q == obs.quantity
             tenths == obs.capital_per_trade * 10
             e == obs.signal.entry_price
         IN  /\ q >= 1
             /\ tenths >= e => (q * e <= tenths /\ tenths < (q + 1) * e)
             /\ tenths < e => q = 1
             /\ obs.ret => trades[Len(trades)].quantity = q

\* an order for a contract dearer than capital_per_trade was sized at one contract
SizedAtMinimum ==
    /\ OrderSized /\ obs.ret
    /\ obs.capital_per_trade = 500 /\ obs.signal.entry_price = 6000
    /\ obs.quantity = 1
    /\ trades[Len(trades)].quantity = 1

----------------------------------------------------------------------------
(* Properties of check_entry_signal and get_or_set_open_price *)

\* the step in which check_entry_signal ends, having read an option quote
DecideStep ==
    /\ cyc.pc \in {"opt", "quote_retry"} /\ cyc'.pc \notin {"opt", "quote_retry"}
    /\ obs'.op = "check_entry_signal" /\ obs'.quote # <<>>

ObsKey(o) == <<o.ticker, o.opt[1].symbol, Today>>

OpenPriceKept ==
    \A k \in DOMAIN price_cache :
        k \in DOMAIN price_cache' /\ price_cache'[k].open_price = price_cache[k].open_price

OpenPriceIsFirstSeen ==
    \A k \in DOMAIN price_cache' \ DOMAIN price_cache :
        DecideStep /\ k = ObsKey(obs') /\ price_cache'[k].open_price = obs'.quote[1].mark

OpenPriceReturned ==
    DecideStep => obs'.open_price = price_cache'[ObsKey(obs')].open_price

\* C3: the open price stored for a (ticker, option_symbol, day) key is the mark
\* the first call saw; no later call changes it, and every call returns it,
\* whatever current price the call is given.
OpenPriceFirstWriteWins ==
    [][OpenPriceKept /\ OpenPriceIsFirstSeen /\ OpenPriceReturned]_vars

\* a later call was given another price and returned the stored open price
LaterCallReturnedOpen ==
    /\ obs.op = "check_entry_signal" /\ obs.quote # <<>>
    /\ obs.quote[1].mark # obs.open_price
    /\ ObsKey(obs) \in DOMAIN price_cache
    /\ price_cache[ObsKey(obs)].open_price = obs.open_price
    /\ price_cache[ObsKey(obs)].current_price = obs.quote[1].mark

----------------------------------------------------------------------------
(* Properties of the streaming connection *)

\* C7: when the transport closed with the subscribed-symbol set S and a fresh
\* connect() completed the handshake, the symbols of the subscription frames
\* sent on the new connection are S: every symbol tracked before is subscribed
\* again, and nothing untracked is.
ResubscribedOnReconnect ==
    (conn > 1 /\ hs = "streaming" /\ rcvd = Acks) =>
        /\ closed_with \subseteq SentSymbols
        /\ SentSymbols \subseteq subscribed_symbols

HandshakeTypes == {"SETUP", "AUTH", "CHANNEL_REQUEST", "FEED_SETUP"}

HandshakeSent == SelectSeq(sent, LAMBDA f : f.type \in HandshakeTypes)

\* C8: the client sends SETUP, AUTH, CHANNEL_REQUEST, FEED_SETUP in that order,
\* goes past a step only on the acknowledgement of that step, and starts the
\* keepalive task and the dispatch of frames only after the FEED_SETUP
\* confirmation: never after an error or an unrelated frame answered a step.
HandshakeAcknowledged ==
    /\ Len(HandshakeSent) <= Len(Handshake)
    /\ HandshakeSent = SubSeq(Handshake, 1, Len(HandshakeSent))
    /\ \A i \in 1..Len(rcvd) : rcvd[i] # Acks[i] => hs = "done"
    /\ (hs = "streaming" \/ keepalive_task = "running") => rcvd = Acks

----------------------------------------------------------------------------
(* Properties of the OAuth session *)

\* C9: of two contexts calling _ensure_authenticated while the token is missing
\* or inside the safety margin, one issues the exchange request and the other
\* waits for it: two requests are never outstanding together.
SingleFlightRefresh ==
    Cardinality({c \in CallerIds : callers[c] = "posted"}) <= 1

\* C10: _ensure_authenticated goes on to the token exchange only when no token
\* exists or the token expires within the safety margin: never while a session
\* token exists whose expiry is more than 12 minutes ahead.
NoExchangeWhileFresh ==
    \A c \in CallerIds :
        callers[c] \in {"checked", "posted"} =>
            \/ session_token = None
            \/ token_expires_at = NoExpiry
            \/ token_expires_at - now <= 12

----------------------------------------------------------------------------
(* Subscriptions: the cycle thread and the API thread hand requests to the   *)
(* streaming loop faster than the loop serves them                           *)

MaxPending == 2

\* get_underlying_price / get_option_quote, the lines before the cache is read:
\* the caller saw `symbol` unsubscribed and handed _subscribe_symbols([symbol])
\* to the loop
SubscribeRequest(symbol) ==
    /\ SubscribeIntent(symbol) = "submit"
    /\ Len(loop_queue) < MaxPending
    /\ loop_queue' = Append(loop_queue, symbol)
    /\ UNCHANGED <<dbVars, session_token, token_expires_at, now, quote_cache,
                   subscribed_symbols, conVars>>

\* the symbols the callers ask quotes for: the underlying and its two options
RequestedSymbols == QuotedSymbols \cup {Dx("SPY", "P", 100, 0)}

InitSub ==
    /\ InitEngine
    /\ clock = 0
    /\ tickers \in [{"SPY"} -> [enabled : {TRUE}, threshold : {50}, max_positions : {1},
                                capital_per_trade : {500}]]
    /\ market = [option |-> {100500}, underlying |-> {101000}, order |-> {"ok_id"},
                 chain |-> ChainAnswers, commit |-> CommitAnswers]
    /\ price_cache = <<>>
    /\ trades = <<>>

NextSub ==
    \/ \E symbol \in RequestedSymbols : SubscribeRequest(symbol)
    \/ SubscribeTask
    \/ TransportDrop
    \/ HandlerEnd
    \/ FeedQuote
    \/ FeedTrade

SpecSub == InitSub /\ [][NextSub]_vars

\* the step in which the loop runs one _subscribe_symbols call
SubscribeStep ==
    /\ ws_loop = "running" /\ ws_loop' = "running"
    /\ loop_queue # <<>> /\ loop_queue' = Tail(loop_queue)

SubscriptionDelta ==
    SubscribeStep =>
        LET delta == {Head(loop_queue)} \ subscribed_symbols
        IN  /\ Len(sent') <= Len(sent) + 1
            /\ delta = {} => sent' = sent
            /\ sent' # sent => sent' = Append(sent, SubscriptionFrame(delta))

NoSymbolTwice ==
    \A i, j \in 1..Len(sent) : i # j => sent[i].symbols \cap sent[j].symbols = {}

\* C11: whatever the order in which subscribe requests are raised and served on
\* one session, a call sends at most one subscription frame, the frame carries
\* exactly the requested symbols that were not subscribed, a call whose symbols
\* are all subscribed sends nothing, and no symbol is carried by two frames.
SubscriptionSendsDeltaOnce == []NoSymbolTwice /\ [][SubscriptionDelta]_vars

\* a symbol was requested twice before the loop served the first request: its
\* frame is sent, and the second call is about to find it subscribed
SecondRequestPending ==
    /\ loop_queue # <<>>
    /\ Head(loop_queue) \in subscribed_symbols
    /\ Head(loop_queue) \in SentSymbols
    /\ ws = "open" /\ transport = "up"

----------------------------------------------------------------------------
(* The quote cache: events of either type, with prices that may be missing   *)
(* (0 stands for NaN or null), and a caller reading option quotes            *)

CacheSymbols == {Dx("SPY", "C", 100, 0), Dx("SPY", "P", 100, 0)}

\* _handle_message for a FEED_DATA frame holding one Quote event of any content
HandleQuote(symbol, bid, ask) ==
    /\ hs = "streaming" /\ transport = "up"
    /\ quote_cache' = Stamped(ApplyQuote(quote_cache, symbol, bid, ask), symbol, now)
    /\ obs' = [op |-> "Quote", symbol |-> symbol]
    /\ UNCHANGED <<running, open_prices_set, clock, tickers, trades, price_cache, cyc,
                   session_token, token_expires_at, now, subscribed_symbols,
                   loop_queue, conVars>>

\* _handle_message for a FEED_DATA frame holding one Trade event of any content
HandleTrade(symbol, last) ==
    /\ hs = "streaming" /\ transport = "up"
    /\ quote_cache' = Stamped(ApplyTrade(quote_cache, symbol, last), symbol, now)
    /\ obs' = [op |-> "Trade", symbol |-> symbol]
    /\ UNCHANGED <<running, open_prices_set, clock, tickers, trades, price_cache, cyc,
                   session_token, token_expires_at, now, subscribed_symbols,
                   loop_queue, conVars>>

QuoteObs(option_symbol, entry, ret) ==
    [op |-> "get_option_quote", symbol |-> option_symbol, entry |-> entry, ret |-> ret]

\* get_option_quote up to its first read of the cache
GetOptionQuote(option_symbol) ==
    /\ cyc.pc = "idle"
    /\ LET symbol == StreamerOf(option_symbol)
       IN  /\ IntentFits(symbol)
           /\ loop_queue' = QueueAfterIntent(symbol)
           /\ IF SubscribeIntent(symbol) = "raise"
              THEN /\ obs' = QuoteObs(option_symbol, <<>>, <<>>)
                   /\ UNCHANGED cyc
              ELSE IF symbol \in DOMAIN quote_cache
              THEN /\ obs' = QuoteObs(option_symbol, <<quote_cache[symbol]>>,
                                      <<QuoteFirstRead(option_symbol, quote_cache[symbol])>>)
                   /\ UNCHANGED cyc
              ELSE /\ obs' = NoObs
                   /\ cyc' = [IdleCyc EXCEPT !.pc = "quote_wait", !.opt = <<option_symbol>>]
    /\ UNCHANGED <<running, open_prices_set, clock, tickers, trades, price_cache,
                   session_token, token_expires_at, now, quote_cache,
                   subscribed_symbols, conVars>>

\* get_option_quote: the read after the one-second wait
GetOptionQuoteRetry ==
    /\ cyc.pc = "quote_wait"
    /\ LET option_symbol == cyc.opt[1]
           symbol == StreamerOf(option_symbol)
       IN  obs' = IF symbol \in DOMAIN quote_cache
                  THEN QuoteObs(option_symbol, <<quote_cache[symbol]>>,
                                <<QuoteSecondRead(option_symbol, quote_cache[symbol])>>)
                  ELSE QuoteObs(option_symbol, <<>>, <<>>)
    /\ cyc' = IdleCyc
    /\ UNCHANGED <<running, open_prices_set, clock, tickers, trades, price_cache,
                   session_token, token_expires_at, now, quote_cache,
                   subscribed_symbols, conVars, loop_queue>>

InitCache ==
    /\ InitEngine
    /\ clock = 0
    /\ tickers \in [{"SPY"} -> [enabled : {TRUE}, threshold : {50}, max_positions : {1},
                                capital_per_trade : {500}]]
    /\ market = [option |-> {100500}, underlying |-> {101000}, order |-> {"ok_id"},
                 chain |-> ChainAnswers, commit |-> CommitAnswers]
    /\ price_cache = <<>>
    /\ trades = <<>>

NextCache ==
    \/ \E symbol \in CacheSymbols : \E bid \in {0, 1000}, ask \in {0, 1200} :
         HandleQuote(symbol, bid, ask)
    \/ \E symbol \in CacheSymbols : \E last \in {0, 900} : HandleTrade(symbol, last)
    \/ GetOptionQuote(Occ("SPY", "C", 100000))
    \/ GetOptionQuoteRetry
    \/ SubscribeTask
    \/ AdvanceClock

SpecCache == InitCache /\ [][NextCache]_vars

\* the field f of the entry of symbol s is the same in both caches, absent included
SameField(old, new, s, f) ==
    IF s \in DOMAIN old /\ f \in DOMAIN old[s]
    THEN s \in DOMAIN new /\ f \in DOMAIN new[s] /\ new[s][f] = old[s][f]
    ELSE ~(s \in DOMAIN new /\ f \in DOMAIN new[s])

OthersKept(old, new, s) ==
    \A t \in (DOMAIN old \cup DOMAIN new) \ {s} :
        t \in DOMAIN old /\ t \in DOMAIN new /\ new[t] = old[t]

QuoteMerge ==
    quote_cache' # quote_cache =>
        /\ obs'.op \in {"Quote", "Trade"}
        /\ OthersKept(quote_cache, quote_cache', obs'.symbol)
        /\ obs'.op = "Trade" =>
             \A f \in {"bid", "ask", "mark"} :
                 SameField(quote_cache, quote_cache', obs'.symbol, f)
        /\ obs'.op = "Quote" => SameField(quote_cache, quote_cache', obs'.symbol, "last")

\* C12: a Trade update for a symbol leaves the symbol's cached bid, ask and mark
\* as they were and changes only last and the timestamp; a Quote update leaves
\* last as it was; an update for one symbol leaves the entry of every other
\* symbol as it was.
QuoteMergeKeepsFields == [][QuoteMerge]_vars

\* a Trade update reached an entry holding bid 1.0 and ask 1.2, which it kept
TradeKeptBidAsk ==
    /\ obs.op = "Trade"
    /\ Get(quote_cache[obs.symbol], "bid") = 1000
    /\ Get(quote_cache[obs.symbol], "ask") = 1200
    /\ Get(quote_cache[obs.symbol], "mark") = 1100
    /\ Get(quote_cache[obs.symbol], "last") = 900
    /\ Get(quote_cache[obs.symbol], "timestamp") > 0

ExpectedMark(entry) ==
    LET bid == Get(entry, "bid")
        ask == Get(entry, "ask")
        last == Get(entry, "last")
    IN  IF bid > 0 /\ ask > 0 THEN (bid + ask) \div 2
        ELSE IF last > 0 THEN last ELSE 10

\* C13: the mark get_option_quote returns is (bid + ask) / 2 when the cached bid
\* and ask are both positive, else the cached last when it is positive, else the
\* floor 0.01; whenever the symbol has an entry the returned mark is above zero.
MarkIsMidLastOrFloor ==
    (obs.op = "get_option_quote" /\ obs.entry # <<>>) =>
        /\ obs.ret # <<>>
        /\ obs.ret[1].mark = ExpectedMark(obs.entry[1])
        /\ obs.ret[1].mark > 0

\* a quote was returned for an entry holding no positive price: the floor
FloorReturned ==
    /\ obs.op = "get_option_quote" /\ obs.ret # <<>>
    /\ Get(obs.entry[1], "bid") = 0 /\ Get(obs.entry[1], "last") = 0
    /\ obs.ret[1].mark = 10

----------------------------------------------------------------------------
(* find_atm_option alone: chains of several expirations, some outside the    *)
(* days-to-expiration range, with strikes not in ascending order             *)

AtmRoots == {"SPY", "QQQ", "IWM", "DIA"}

AtmPrices == {94000, 97500, 100000, 101000, 103000, 110000}

\* find_atm_option(symbol, option_type, underlying_price, DTE_MIN, DTE_MAX)
FindAtm ==
    /\ cyc.pc = "atm"
    /\ \E ans \in ExchangeAnswers, fetch \in market.chain :
         LET auth == EnsureAuthenticated(ans)
             got == IF auth.ok THEN fetch ELSE "fail"
         IN  /\ session_token' = auth.token
             /\ token_expires_at' = auth.expires
             /\ obs' = [op |-> "find_atm_option", root |-> cyc.cfg.symbol,
                        otype |-> cyc.otype, und |-> cyc.und, fetch |-> got,
                        ret |-> find_atm_option(cyc.cfg.symbol, cyc.otype, cyc.und,
                                                got, Today)]
    /\ cyc' = IdleCyc
    /\ UNCHANGED <<running, open_prices_set, clock, tickers, trades, price_cache, now,
                   quote_cache, subscribed_symbols, conVars, loop_queue>>

InitAtm ==
    /\ InitStream
    /\ bot = NoBot
    /\ InitToken
    /\ running = TRUE
    /\ open_prices_set = FALSE
    /\ clock = 1
    /\ obs = NoObs
    /\ tickers \in [{"SPY"} -> [enabled : {TRUE}, threshold : {50}, max_positions : {1},
                                capital_per_trade : {500}]]
    /\ market = [option |-> {100500}, underlying |-> AtmPrices, order |-> {"ok_id"},
                 chain |-> ChainAnswers, commit |-> CommitAnswers]
    /\ price_cache = <<>>
    /\ trades = <<>>
    /\ \E root \in AtmRoots, otype \in {"CALL", "PUT"}, und \in AtmPrices :
         cyc = [IdleCyc EXCEPT !.pc = "atm", !.cfg = [NoCfg EXCEPT !.symbol = root],
                               !.otype = otype, !.und = und]

NextAtm == FindAtm

SpecAtm == InitAtm /\ [][NextAtm]_vars

\* the places <<expiration, index>> of the chain's instruments of the wanted type
\* whose days to expiration are within the range, bounds included
AtmCandidates(chain, otype, today) ==
    {p \in UNION {{<<d, i>> : i \in 1..Len(chain[d])} : d \in DOMAIN chain} :
        /\ DAYS_TO_EXPIRATION_MIN <= p[1] - today
        /\ p[1] - today <= DAYS_TO_EXPIRATION_MAX
        /\ chain[p[1]][p[2]].option_type = (IF otype = "CALL" THEN "C" ELSE "P")}

AtmDistance(chain, p, und) == Abs(chain[p[1]][p[2]].strike_price - und)

\* p is met before q when expirations are visited by ascending date and strikes
\* in chain order
MetNoLater(p, q) == p[1] < q[1] \/ (p[1] = q[1] /\ p[2] <= q[2])

AtmChosen(chain, otype, und, today, ret) ==
    LET cands == AtmCandidates(chain, otype, today)
    IN  IF cands = {} THEN ret = <<>>
        ELSE /\ ret # <<>>
             /\ \E p \in cands :
                  /\ ret[1].symbol = chain[p[1]][p[2]].symbol
                  /\ ret[1].strike = chain[p[1]][p[2]].strike_price
                  /\ ret[1].expiration = p[1]
                  /\ ret[1].option_type = otype
                  /\ \A q \in cands : AtmDistance(chain, p, und) <= AtmDistance(chain, q, und)
                  /\ \A q \in cands :
                       AtmDistance(chain, q, und) = AtmDistance(chain, p, und)
                           => MetNoLater(p, q)

\* C14: among the chain's instruments of the requested type whose days to
\* expiration are within [dteMin, dteMax], bounds included, find_atm_option
\* returns one whose strike is nearest the underlying price, and of several
\* equally near the first met by ascending expiration and chain order (strikes
\* 95, 100, 105 and price 101 give 100; strikes 98, 102 and price 100 give the
\* first of them in that order).
AtmIsNearestFirstMet ==
    (obs.op = "find_atm_option" /\ obs.fetch = "ok") =>
        AtmChosen(ChainOf(obs.root), obs.otype, obs.und, Today, obs.ret)

\* two strikes of two expirations were equally near, and the first one met in
\* the earlier expiration was returned
AtmTieGoesToFirstMet ==
    /\ obs.op = "find_atm_option" /\ obs.root = "DIA" /\ obs.otype = "CALL"
    /\ obs.und = 100000
    /\ obs.ret # <<>> /\ obs.ret[1].strike = 102000 /\ obs.ret[1].expiration = 3

----------------------------------------------------------------------------
(* Properties of run_cycle's gates *)

\* the tick that begins outside the trading window ends at once, having queued
\* nothing and written nothing
GateKept ==
    (RunCycle /\ running /\ TimeOfDay # "open") =>
        /\ cyc'.pc = "idle"
        /\ trades' = trades /\ price_cache' = price_cache
        /\ loop_queue' = loop_queue
        /\ session_token' = session_token

\* an open price is recorded or refreshed for the day it is observed in, from the
\* start of that day's trading window on
OpenPriceAfterStart ==
    \A k \in DOMAIN price_cache' :
        (k \notin DOMAIN price_cache \/ price_cache'[k] # price_cache[k])
            => (k[3] = Today /\ TimeOfDay # "pre")

PositionsAfterStart == trades' # trades => TimeOfDay # "pre"

\* C15: a tick whose current time is outside the trading window places no order,
\* creates or changes no open price record and modifies no position; so every
\* open price record of a day comes from an observation made at or after the
\* start of the day's trading.
TradingWindowGate == [][GateKept /\ OpenPriceAfterStart /\ PositionsAfterStart]_vars

\* a tick began after the window closed and returned, the day's open price
\* record still showing what the last tick inside the window saw
TickAfterHoursReturned ==
    /\ obs.op = "run_cycle" /\ obs.running /\ obs.time = "post"
    /\ cyc.pc = "idle"
    /\ price_cache # <<>>

----------------------------------------------------------------------------
(* Mark-to-market: a position is open, and the administrator enables and     *)
(* disables the ticker while the bot runs                                    *)

\* PUT /api/tickers/{symbol} with a payload that sets enabled
UpdateTicker(symbol, enabled) ==
    /\ symbol \in DOMAIN tickers
    /\ tickers[symbol].enabled # enabled
    /\ tickers' = [tickers EXCEPT ![symbol].enabled = enabled]
    /\ UNCHANGED <<running, open_prices_set, clock, trades, price_cache, cyc,
                   session_token, token_expires_at, now, quote_cache,
                   subscribed_symbols, conVars, loop_queue, obs>>

InitMark ==
    /\ InitEngine
    /\ clock = 1
    /\ tickers \in [{"SPY"} -> [enabled : {TRUE}, threshold : {50}, max_positions : {1},
                                capital_per_trade : {500}]]
    /\ market = [option |-> {100500}, underlying |-> {101000}, order |-> {"ok_id"},
                 chain |-> ChainAnswers, commit |-> CommitAnswers]
    /\ price_cache = (<<"SPY", Occ("SPY", "C", 100000), 1>> :> OpenRow(100000, 100500))
                  @@ (<<"SPY", Occ("SPY", "P", 100000), 1>> :> OpenRow(100000, 100500))
    /\ trades = <<EarlierTrade>>

NextMark ==
    \/ Start
    \/ AdvanceClock
    \/ RunCycle
    \/ CheckUnderlying
    \/ UnderlyingRetry
    \/ CheckOption
    \/ QuoteRetry
    \/ ExecuteTrade
    \/ UpdLoad
    \/ UpdQuote
    \/ UpdRetry
    \/ UpdCommit
    \/ \E enabled \in BOOLEAN : UpdateTicker("SPY", enabled)
    \/ SubscribeTask
    \/ FeedQuote
    \/ FeedTrade

SpecMark == InitMark /\ [][NextMark]_vars

\* the OPEN trade i shows the mark its cached quote gives, and the P&L at that mark
ShowsMark(rows, i) ==
    LET symbol == StreamerOf(rows[i].option_symbol)
        mark == QuoteFirstRead(rows[i].option_symbol, quote_cache[symbol]).mark
    IN  (rows[i].status = "OPEN" /\ symbol \in DOMAIN quote_cache)
            => /\ rows[i].exit_price = mark
               /\ rows[i].pnl = PnL(rows[i].entry_price, mark, rows[i].quantity)

\* a tick inside the trading window returns from run_cycle
TickReturns == RunCycle /\ running /\ TimeOfDay = "open" /\ cyc'.pc = "idle"

\* update_positions commits
PositionsCommitted == cyc.pc = "upd_commit" /\ cyc'.pc = "idle"

MarkedOnTick ==
    /\ TickReturns => \A i \in 1..Len(trades') : ShowsMark(trades', i)
    /\ PositionsCommitted =>
         /\ \A k \in 1..Len(cyc.dirty) :
              LET d == cyc.dirty[k]
              IN  /\ trades'[d.id].exit_price = d.exit_price
                  /\ trades'[d.id].pnl = PnL(trades[d.id].entry_price, d.exit_price,
                                             trades[d.id].quantity)
         /\ \A i \in 1..Len(trades) :
              (\A k \in 1..Len(cyc.dirty) : cyc.dirty[k].id # i) => trades'[i] = trades[i]

\* C16: on every tick that runs inside the trading window, whatever tickers are
\* enabled (none included), each OPEN position whose quote is available has its
\* current price set to the mark and its P&L to (mark - entry_price) * quantity
\* * 100, after the tick's signal and execution step; a position whose quote is
\* not available is left as it was.
MarkToMarketOnEveryTick == [][MarkedOnTick]_vars

----------------------------------------------------------------------------
(* Properties of get_underlying_price *)

\* get_underlying_price found no cache entry after its one-second wait, while
\* the exchange does quote the underlying
UnderlyingMissedInCache ==
    /\ cyc.pc = "und_retry" /\ cyc'.pc # "und_retry"
    /\ Eq(cyc.cfg.symbol) \notin DOMAIN quote_cache
    /\ market.underlying # {}

\* C18: when the quote cache has no entry for the underlying after the bounded
\* wait and a REST quote for it can be had, check_entry_signal goes on with the
\* REST price instead of returning no signal.
UnderlyingFallsBackToRest ==
    [][UnderlyingMissedInCache => (cyc'.pc = "opt" /\ cyc'.und \in market.underlying)]_vars

----------------------------------------------------------------------------
(* TradingBot: start and stop from the API, and the scheduler that runs      *)
(* run_cycle as an interval job                                              *)

\* run_cycle executions in progress: the one the model follows, and any other
Instances == (IF cyc.pc = "idle" THEN 0 ELSE 1) + bot.extra

\* variant: the job is submitted whatever is running
InstanceAlwaysAllowed == TRUE

\* the executor's test on submission: add_job leaves max_instances at its default, 1
InstanceAllowed == Instances < 1

\* variant: scheduler.shutdown(wait=False)
JobsNotAwaited == TRUE

\* scheduler.shutdown() returns when the executing jobs have ended
JobsFinished == Instances = 0

\* TradingBot.start
BotStart ==
    /\ ~bot.running /\ bot.pc = "idle"
    /\ running' = TRUE
    /\ open_prices_set' = FALSE
    /\ bot' = [bot EXCEPT !.running = TRUE, !.scheduler = "running"]
    /\ obs' = NoObs
    /\ UNCHANGED <<clock, tickers, trades, price_cache, cyc, session_token,
                   token_expires_at, now, quote_cache, subscribed_symbols, loop_queue,
                   ws_loop, ws, hs, transport, sent, rcvd, keepalive_task, conn,
                   closed_with, market, callers>>

\* TradingBot.stop up to engine.stop()
BotStop ==
    /\ bot.running /\ bot.pc = "idle"
    /\ running' = FALSE
    /\ bot' = [bot EXCEPT !.pc = "shutdown"]
    /\ obs' = NoObs
    /\ UNCHANGED <<open_prices_set, clock, tickers, trades, price_cache, cyc,
                   session_token, token_expires_at, now, quote_cache,
                   subscribed_symbols, loop_queue, ws_loop, ws, hs, transport, sent,
                   rcvd, keepalive_task, conn, closed_with, market, callers>>

\* variant: shutdown() keeps the jobs of the scheduler
BotStopReturnKeepingJob ==
    /\ bot.pc = "shutdown"
    /\ JobsFinished
    /\ bot' = [bot EXCEPT !.running = FALSE, !.scheduler = "stopped", !.pc = "idle"]
    /\ obs' = [op |-> "stop"]
    /\ UNCHANGED <<running, open_prices_set, clock, tickers, trades, price_cache, cyc,
                   session_token, token_expires_at, now, quote_cache,
                   subscribed_symbols, loop_queue, ws_loop, ws, hs, transport, sent,
                   rcvd, keepalive_task, conn, closed_with, market, callers>>

\* TradingBot.stop: scheduler.shutdown() returns, and stop() after it. The job
\* add_job put in the scheduler's default (in-memory) job store goes with the
\* store when the scheduler shuts down; nothing in run.py adds it again
BotStopReturn ==
    /\ bot.pc = "shutdown"
    /\ JobsFinished
    /\ bot' = [bot EXCEPT !.running = FALSE, !.scheduler = "stopped", !.job = FALSE,
                          !.pc = "idle"]
    /\ obs' = [op |-> "stop"]
    /\ UNCHANGED <<running, open_prices_set, clock, tickers, trades, price_cache, cyc,
                   session_token, token_expires_at, now, quote_cache,
                   subscribed_symbols, loop_queue, ws_loop, ws, hs, transport, sent,
                   rcvd, keepalive_task, conn, closed_with, market, callers>>

\* the interval job is due: the scheduler submits run_cycle to its executor, or
\* skips the run when the executor refuses it
TimerDue ==
    /\ bot.scheduler = "running"
    /\ bot.job
    /\ IF ~InstanceAllowed
       THEN /\ obs' = [op |-> "skipped"]
            /\ UNCHANGED <<running, open_prices_set, clock, tickers, trades,
                           price_cache, cyc, session_token, token_expires_at, now,
                           quote_cache, subscribed_symbols, loop_queue, conVars>>
       ELSE IF cyc.pc = "idle"
       THEN RunCycle
       ELSE /\ bot' = [bot EXCEPT !.extra = @ + 1]
            /\ UNCHANGED <<running, open_prices_set, clock, tickers, trades,
                           price_cache, cyc, session_token, token_expires_at, now,
                           quote_cache, subscribed_symbols, loop_queue, obs, ws_loop,
                           ws, hs, transport, sent, rcvd, keepalive_task, conn,
                           closed_with, market, callers>>

InitBot ==
    /\ InitEngine
    /\ clock = 1
    /\ tickers \in [{"SPY"} -> [enabled : {TRUE}, threshold : {50}, max_positions : {2},
                                capital_per_trade : {500}]]
    /\ market = [option |-> {100500}, underlying |-> {101000}, order |-> {"ok_id"},
                 chain |-> ChainAnswers, commit |-> CommitAnswers]
    /\ price_cache = (<<"SPY", Occ("SPY", "C", 100000), 1>> :> OpenRow(100000, 100500))
                  @@ (<<"SPY", Occ("SPY", "P", 100000), 1>> :> OpenRow(100000, 100500))
    /\ trades = <<EarlierTrade>>

NextBot ==
    \/ BotStart
    \/ BotStop
    \/ BotStopReturn
    \/ TimerDue
    \/ CheckUnderlying
    \/ UnderlyingRetry
    \/ CheckOption
    \/ QuoteRetry
    \/ ExecuteTrade
    \/ UpdLoad
    \/ UpdQuote
    \/ UpdRetry
    \/ UpdCommit
    \/ AdvanceClock
    \/ SubscribeTask
    \/ FeedQuote
    \/ FeedTrade
    \/ TransportDrop
    \/ HandlerEnd

SpecBot == InitBot /\ [][NextBot]_vars

\* the step in which the job comes due while a run_cycle execution is in progress
DueWhileRunning == TimerDue /\ cyc.pc # "idle"

\* C17: ticks never overlap: at most one run_cycle execution is in progress at
\* any time, and a tick that comes due while one is still running is skipped,
\* not queued to run later.
TicksNeverOverlap ==
    /\ [](Instances <= 1)
    /\ [][DueWhileRunning => (obs'.op = "skipped" /\ cyc' = cyc /\ bot' = bot)]_vars

\* a tick came due in the middle of update_positions and was skipped
TickSkippedWhileRunning ==
    /\ obs.op = "skipped"
    /\ cyc.pc \in {"upd_quote", "upd_retry", "upd_commit"}
    /\ Instances = 1

\* C19: once the bot's stop path has run, the cycle timer is stopped, the
\* streaming connection closed, the keepalive timer cancelled and the transport
\* released, whatever state the streaming client was in.
ShutdownReleasesStream ==
    obs.op = "stop" =>
        /\ bot.scheduler = "stopped"
        /\ ws = "none"
        /\ keepalive_task # "running"
        /\ transport # "up"

\* between the return of stop() and the next start()
BotStopped == ~bot.running /\ bot.pc = "idle"

StoppedTickReturns ==
    (TimerDue /\ ~running /\ cyc.pc = "idle") =>
        /\ cyc' = cyc
        /\ trades' = trades /\ price_cache' = price_cache
        /\ loop_queue' = loop_queue /\ session_token' = session_token

QuietWhileStopped ==
    BotStopped =>
        /\ cyc.pc = "idle" /\ cyc' = cyc
        /\ trades' = trades /\ price_cache' = price_cache

\* C20: a tick that begins while the engine's running flag is false returns
\* without checking signals, placing orders, writing open prices or marking
\* positions; and between the return of stop() and the next start() the engine
\* places no order and modifies no position or open price record.
StartStopGating == [][StoppedTickReturns /\ QuietWhileStopped]_vars

\* a tick of this run bought, and stop() has returned with no tick in progress
StopReturnedAfterTick ==
    /\ obs.op = "stop" /\ BotStopped /\ ~running
    /\ cyc.pc = "idle"
    /\ Len(trades) > 1

-----------------------------------------------------------------------------
(* The token exchange as one caller sees it: _ensure_authenticated run to     *)
(* its return, with every way the exchange can go                            *)

\* what the POST to /oauth/token can do: raise, answer with a status other than
\* 200, answer 200 with a body that is not JSON, with JSON that has no
\* access_token, with a token and a lifetime in minutes, or with a token and an
\* expires_in that is no number
ExchangeOutcomes ==
    {[kind |-> k, token |-> None, expires_in |-> 0] :
        k \in {"raises", "status", "not_json", "no_token"}}
    \cup {[kind |-> "token", token |-> "tok2", expires_in |-> e] : e \in {11, 14}}
    \cup {[kind |-> "bad_expiry", token |-> "tok2", expires_in |-> 0]}

GetAccessTokenClearing(out) ==
    IF out.kind = "token"
    THEN [ok |-> TRUE, token |-> out.token, expires |-> now + out.expires_in, requests |-> 1]
    ELSE [ok |-> FALSE, token |-> None, expires |-> NoExpiry, requests |-> 1]

\* _get_access_token: one post; session_token is assigned before the lifetime is
\* added to the clock, so a lifetime that cannot be added leaves the new token
\* with the old expiry, and the except clause returns False
GetAccessToken(out) ==
    CASE out.kind = "token" ->
           [ok |-> TRUE, token |-> out.token, expires |-> now + out.expires_in,
            requests |-> 1]
      [] out.kind = "bad_expiry" ->
           [ok |-> FALSE, token |-> out.token, expires |-> token_expires_at,
            requests |-> 1]
      [] OTHER ->
           [ok |-> FALSE, token |-> session_token, expires |-> token_expires_at,
            requests |-> 1]

\* _ensure_authenticated: the exchange is made only without a usable token
EnsureResult(out) ==
    IF TokenUsable
    THEN [ok |-> TRUE, token |-> session_token, expires |-> token_expires_at,
          requests |-> 0]
    ELSE GetAccessToken(out)

\* _ensure_authenticated, from its call to its return
EnsureCall ==
    /\ \E out \in ExchangeOutcomes :
         LET r == EnsureResult(out)
         IN  /\ session_token' = r.token
             /\ token_expires_at' = r.expires
             /\ obs' = [op |-> "ensure_authenticated", ok |-> r.ok,
                        requests |-> r.requests,
                        exchange |-> IF TokenUsable THEN "-" ELSE out.kind]
    /\ UNCHANGED <<running, open_prices_set, clock, tickers, trades, price_cache, cyc,
                   now, quote_cache, subscribed_symbols, loop_queue, conVars>>

\* the operations of the client that send an authenticated REST request
RestOps ==
    {"get_option_chain", "place_order", "get_positions", "get_account_balance",
     "_get_dxlink_token"}

\* what each returns when it has nothing to give
FailureValue(op) ==
    CASE op \in {"get_option_chain", "place_order"} -> "None"
      [] op = "get_positions" -> "[]"
      [] op = "get_account_balance" -> "{}"
      [] op = "_get_dxlink_token" -> "False"

RequestSentAnyway(ok) == TRUE

\* "if not self._ensure_authenticated(): return <failure value>": whether the
\* operation goes on to its request
RequestSent(ok) == ok

\* one REST operation, from its call to its return; its request raises, is
\* answered with an error status, or with the value the operation returns
RestCall(op) ==
    /\ \E out \in ExchangeOutcomes, resp \in {"raises", "status", "value"} :
         LET auth == EnsureResult(out)
             goes == RequestSent(auth.ok)
         IN  /\ session_token' = auth.token
             /\ token_expires_at' = auth.expires
             /\ obs' = [op |-> op, auth_ok |-> auth.ok,
                        sent |-> IF goes THEN 1 ELSE 0,
                        ret |-> IF goes /\ resp = "value" THEN "value"
                                ELSE FailureValue(op)]
    /\ UNCHANGED <<running, open_prices_set, clock, tickers, trades, price_cache, cyc,
                   now, quote_cache, subscribed_symbols, loop_queue, conVars>>

NextTokenCall ==
    \/ EnsureCall
    \/ \E op \in RestOps : RestCall(op)
    \/ Tick

SpecTokenCall == InitAuth /\ [][NextTokenCall]_vars

FailedExchanges == {"raises", "status", "not_json", "no_token"}

\* C21: when the exchange raises, answers with a status other than 200 or with
\* a body without access_token, the call reports failure, leaves session_token
\* and token_expires_at as they were, and has sent exactly one request.
ExchangeFailureKeepsToken ==
    [][(EnsureCall /\ obs'.exchange \in FailedExchanges) =>
          /\ ~obs'.ok
          /\ session_token' = session_token
          /\ token_expires_at' = token_expires_at
          /\ obs'.requests = 1]_vars

\* the exchange answered 503 while an expired token was held: the token stayed
ExpiredTokenKeptOnFailure ==
    /\ obs.op = "ensure_authenticated" /\ obs.exchange = "status" /\ ~obs.ok
    /\ session_token = "tok" /\ token_expires_at - now <= TokenSafetyMargin

\* C22: every REST operation calls _ensure_authenticated before its request,
\* sends no authenticated request when that call fails, and then returns its
\* failure value (None, empty list, empty dict or false).
NoRequestWithoutAuthentication ==
    [][\A op \in RestOps :
          (RestCall(op) /\ obs'.op = op /\ ~obs'.auth_ok) =>
              /\ obs'.sent = 0
              /\ obs'.ret = FailureValue(op)]_vars

\* place_order was called with an expired token and the exchange failed: no
\* order request went out and None came back
OrderNotSentUnauthenticated ==
    /\ obs.op = "place_order" /\ ~obs.auth_ok
    /\ obs.sent = 0 /\ obs.ret = "None"
    /\ session_token = "tok"

-----------------------------------------------------------------------------
(* Exits of the connection handler *)

\* the handler has ended: no connection reference, no running keepalive, no
\* transport still up
HandlerLeftNothing ==
    hs = "done" =>
        /\ ws = "none"
        /\ keepalive_task # "running"
        /\ transport # "up"

\* a connection is attempted only by the handler a connect() call has started
AttemptOnlyByConnect ==
    /\ (hs' = "connecting" /\ hs # "connecting") => conn' = conn + 1
    /\ (hs = "done" /\ hs' # "done") => conn' = conn + 1
    /\ (hs = "connecting" /\ hs' # hs) => conn' = conn

\* C23: on every exit of the connection handler the client holds no connection
\* reference, the keepalive task is cancelled if it was started, and the
\* transport is released; the client makes no connection attempt of its own:
\* one connect() call yields at most one attempt.
HandlerExitReleasesAll ==
    /\ []HandlerLeftNothing
    /\ [][AttemptOnlyByConnect]_vars

\* the second connection failed in the middle of its handshake, after the first
\* had streamed: its handler ended with the first one's keepalive cancelled
SecondHandshakeFailedMidway ==
    /\ hs = "done" /\ conn = 2
    /\ Len(rcvd) \in 1..3
    /\ keepalive_task = "cancelled" /\ ws = "none"

-----------------------------------------------------------------------------
(* The quote cache under its two threads: the streaming loop writes an entry  *)
(* in two statements, the cycle thread reads it field by field, and no lock   *)
(* orders them                                                               *)

\* the Quote events of the feed: bid and ask as they come together
RaceQuotes == {<<1000, 1200>>, <<2000, 2200>>}

\* _handle_message, the statements that touch the cache for one event:
\* "self.quote_cache[symbol] = {}" when the symbol is new, and
\* "self.quote_cache[symbol].update({...})"
CacheWrite(symbol) ==
    /\ hs = "streaming" /\ transport = "up"
    /\ symbol \in SentSymbols
    /\ \/ /\ symbol \notin DOMAIN quote_cache
          /\ quote_cache' = Put(quote_cache, symbol, <<>>)
       \/ /\ symbol \in DOMAIN quote_cache
          /\ \E q \in RaceQuotes :
               quote_cache' = ApplyQuote(quote_cache, symbol, q[1], q[2])
       \/ /\ symbol \in DOMAIN quote_cache
          /\ quote_cache' = ApplyTrade(quote_cache, symbol, 1100)
    /\ obs' = NoObs
    /\ UNCHANGED <<running, open_prices_set, clock, tickers, trades, price_cache, cyc,
                   session_token, token_expires_at, now, subscribed_symbols,
                   loop_queue, conVars>>

\* the locals of get_option_quote while it reads
Reading(option_symbol, retry) ==
    [symbol |-> option_symbol, retry |-> retry, bid |-> 0, ask |-> 0, last |-> 0]

\* get_option_quote up to "if streamer_symbol in self.quote_cache"
ReadBegin(option_symbol) ==
    /\ cyc.pc = "idle"
    /\ LET symbol == StreamerOf(option_symbol)
       IN  /\ IntentFits(symbol)
           /\ loop_queue' = QueueAfterIntent(symbol)
           /\ IF SubscribeIntent(symbol) = "raise"
              THEN /\ obs' = QuoteObs(option_symbol, <<>>, <<>>)
                   /\ UNCHANGED cyc
              ELSE /\ obs' = NoObs
                   /\ cyc' = IF symbol \in DOMAIN quote_cache
                             THEN [IdleCyc EXCEPT !.pc = "read_bid",
                                                  !.opt = <<Reading(option_symbol, FALSE)>>]
                             ELSE [IdleCyc EXCEPT !.pc = "quote_wait",
                                                  !.opt = <<option_symbol>>]
    /\ UNCHANGED <<running, open_prices_set, clock, tickers, trades, price_cache,
                   session_token, token_expires_at, now, quote_cache,
                   subscribed_symbols, conVars>>

\* get_option_quote: the test of the cache after the one-second wait
ReadAgain ==
    /\ cyc.pc = "quote_wait"
    /\ LET option_symbol == cyc.opt[1]
       IN  IF StreamerOf(option_symbol) \in DOMAIN quote_cache
           THEN /\ cyc' = [cyc EXCEPT !.pc = "read_bid",
                                      !.opt = <<Reading(option_symbol, TRUE)>>]
                /\ obs' = NoObs
           ELSE /\ cyc' = IdleCyc
                /\ obs' = QuoteObs(option_symbol, <<>>, <<>>)
    /\ UNCHANGED <<running, open_prices_set, clock, tickers, trades, price_cache,
                   session_token, token_expires_at, now, quote_cache,
                   subscribed_symbols, conVars, loop_queue>>

\* get_option_quote: one "quote.get(...)" on the entry the cache holds, and the
\* return once the last field is read; the read after the wait takes no mark
ReadField ==
    /\ cyc.pc \in {"read_bid", "read_ask", "read_last", "read_mark"}
    /\ LET r == cyc.opt[1]
           entry == quote_cache[StreamerOf(r.symbol)]
       IN  CASE cyc.pc = "read_bid" ->
                  /\ cyc' = [cyc EXCEPT !.pc = "read_ask",
                                        !.opt = <<[r EXCEPT !.bid = Get(entry, "bid")]>>]
                  /\ obs' = NoObs
             [] cyc.pc = "read_ask" ->
                  /\ cyc' = [cyc EXCEPT !.pc = "read_last",
                                        !.opt = <<[r EXCEPT !.ask = Get(entry, "ask")]>>]
                  /\ obs' = NoObs
             [] cyc.pc = "read_last" /\ ~r.retry ->
                  /\ cyc' = [cyc EXCEPT !.pc = "read_mark",
                                        !.opt = <<[r EXCEPT !.last = Get(entry, "last")]>>]
                  /\ obs' = NoObs
             [] cyc.pc = "read_last" /\ r.retry ->
                  /\ cyc' = IdleCyc
                  /\ obs' = QuoteObs(r.symbol, <<>>,
                                     <<QuoteSecondRead(r.symbol,
                                                       [r EXCEPT !.last = Get(entry, "last")])>>)
             [] cyc.pc = "read_mark" ->
                  /\ cyc' = IdleCyc
                  /\ obs' = QuoteObs(r.symbol, <<>>,
                                     <<QuoteFirstRead(r.symbol,
                                                      [bid |-> r.bid, ask |-> r.ask,
                                                       last |-> r.last,
                                                       mark |-> Get(entry, "mark")])>>)
    /\ UNCHANGED <<running, open_prices_set, clock, tickers, trades, price_cache,
                   session_token, token_expires_at, now, quote_cache,
                   subscribed_symbols, conVars, loop_queue>>

NextRace ==
    \/ CacheWrite(Dx("SPY", "C", 100, 0))
    \/ ReadBegin(Occ("SPY", "C", 100000))
    \/ ReadAgain
    \/ ReadField
    \/ SubscribeTask
    \/ AdvanceClock

SpecRace == InitCache /\ [][NextRace]_vars

\* C24: a quote returned by get_option_quote is a snapshot of one state of the
\* symbol's entry: its bid and ask came together in one Quote event (or none has
\* come), its mark is the one that belongs to them, and it is never the entry
\* as inserted, before the event that inserted it was applied.
QuoteIsAtomicSnapshot ==
    (obs.op = "get_option_quote" /\ obs.ret # <<>>) =>
        LET q == obs.ret[1]
        IN  /\ <<q.bid, q.ask>> \in RaceQuotes \cup {<<0, 0>>}
            /\ ~(q.bid = 0 /\ q.ask = 0 /\ q.last = 0)
            /\ q.mark = ExpectedMark(q)

-----------------------------------------------------------------------------
(* FEED_DATA frames as they come off the wire: a flat list of fields, which   *)
(* _handle_message cuts into events by position                              *)

MaxGroups == 2

\* the fields of a frame: the event type, a symbol, a number, the string "NaN",
\* null, and a string that is none of these
TypeField == [k |-> "type"]
SymbolField(symbol) == [k |-> "symbol", v |-> symbol]
NumberField(n) == [k |-> "number", v |-> n]
NaNField == [k |-> "NaN"]
NullField == [k |-> "null"]
TextField == [k |-> "text"]

\* "float(x) if x not in ['NaN', None] else 0" returns a value for these fields
\* and raises ValueError for the others
Parses(field) == field.k \in {"number", "NaN", "null"}

Float(field) == IF field.k = "number" THEN field.v ELSE 0

\* the first n fields of a Quote event: eventType, eventSymbol, bidPrice,
\* askPrice, bidSize, askSize
QuoteGroup(g) ==
    SubSeq(<<TypeField, SymbolField(g.symbol), g.bid, g.ask, NumberField(1),
             NumberField(1)>>, 1, g.n)

RECURSIVE FrameEvents(_)
FrameEvents(groups) ==
    IF groups = <<>> THEN <<>> ELSE QuoteGroup(Head(groups)) \o FrameEvents(Tail(groups))

\* _handle_message, the while loop over the events of a Quote frame; i is the
\* position of the field under test, counted from 1
RECURSIVE ParseQuotes(_, _, _)
ParseQuotes(events, i, cache) ==
    IF i > Len(events) THEN cache
    ELSE IF events[i].k # "type" THEN ParseQuotes(events, i + 1, cache)
    ELSE IF i + 3 > Len(events) THEN cache
    ELSE IF ~Parses(events[i + 2]) \/ ~Parses(events[i + 3]) THEN cache
    ELSE LET f == events[i + 1]
             symbol == IF f.k = "symbol" THEN f.v ELSE f
         IN  ParseQuotes(events, i + 6,
                         ApplyQuote(cache, symbol, Float(events[i + 2]),
                                    Float(events[i + 3])))

\* the groups a frame is made of: whole, cut after the symbol or after the
\* ask price, with a bid that is a number, "NaN" or no number at all
FrameGroupSet ==
    [symbol : CacheSymbols, bid : {NumberField(1000), NaNField, TextField},
     ask : {NumberField(1200)}, n : {2, 4, 6}]

Frames == UNION {[1..n -> FrameGroupSet] : n \in 1..MaxGroups}

\* the message loop: json.loads and _handle_message for one FEED_DATA frame of
\* Quote events
HandleFrame(groups) ==
    /\ hs = "streaming" /\ transport = "up"
    /\ quote_cache' = ParseQuotes(FrameEvents(groups), 1, quote_cache)
    /\ obs' = [op |-> "FEED_DATA", groups |-> groups, before |-> quote_cache]
    /\ UNCHANGED <<running, open_prices_set, clock, tickers, trades, price_cache, cyc,
                   session_token, token_expires_at, now, subscribed_symbols,
                   loop_queue, conVars>>

\* the message loop: json.loads raises on a message that is not JSON, the
\* exception is logged and the loop takes the next message
HandleNotJson ==
    /\ hs = "streaming" /\ transport = "up"
    /\ obs' = [op |-> "not_json", before |-> quote_cache]
    /\ UNCHANGED <<running, open_prices_set, clock, tickers, trades, price_cache, cyc,
                   session_token, token_expires_at, now, quote_cache,
                   subscribed_symbols, loop_queue, conVars>>

NextFrame ==
    \/ \E groups \in Frames : HandleFrame(groups)
    \/ HandleNotJson
    \/ TransportDrop
    \/ HandlerEnd

SpecFrame == InitCache /\ [][NextFrame]_vars

\* a group with all its six fields and prices that parse
GroupWhole(g) == g.n = 6 /\ Parses(g.bid) /\ Parses(g.ask)

\* the cache once the groups before the first malformed one are applied
RECURSIVE AppliedUpToMalformed(_, _)
AppliedUpToMalformed(cache, groups) ==
    IF groups = <<>> \/ ~GroupWhole(Head(groups)) THEN cache
    ELSE AppliedUpToMalformed(ApplyQuote(cache, Head(groups).symbol,
                                         Float(Head(groups).bid), Float(Head(groups).ask)),
                              Tail(groups))

\* C25: of a FEED_DATA frame with a truncated or non-numeric group, the groups
\* before it are applied, that group and those after it change nothing in the
\* cache, and the receive loop goes on; a message that is not JSON changes
\* nothing and does not end the connection either.
MalformedGroupDropped ==
    /\ obs.op = "FEED_DATA" =>
          /\ quote_cache = AppliedUpToMalformed(obs.before, obs.groups)
          /\ hs = "streaming" /\ ws = "open"
    /\ obs.op = "not_json" =>
          /\ quote_cache = obs.before
          /\ hs = "streaming" /\ ws = "open"

-----------------------------------------------------------------------------
(* Ticks over two tickers: QQQ enabled, SPY enabled or not, with a position   *)
(* left open by an earlier run                                               *)

InitPair ==
    /\ InitEngine
    /\ clock = 1
    /\ tickers \in [{"SPY", "QQQ"} -> [enabled : BOOLEAN, threshold : {50},
                                       max_positions : {2}, capital_per_trade : {500}]]
    /\ tickers["QQQ"].enabled
    /\ market = [option |-> {100500}, underlying |-> {101000},
                 order |-> {"http_error", "ok_id"}, chain |-> ChainAnswers, commit |-> CommitAnswers]
    /\ price_cache = (<<"SPY", Occ("SPY", "C", 100000), 1>> :> OpenRow(100000, 100500))
                  @@ (<<"SPY", Occ("SPY", "P", 100000), 1>> :> OpenRow(100000, 100500))
    /\ trades = <<EarlierTrade>>

NextPair ==
    \/ Start
    \/ AdvanceClock
    \/ RunCycle
    \/ CheckUnderlying
    \/ UnderlyingRetry
    \/ CheckOption
    \/ QuoteRetry
    \/ ExecuteTrade
    \/ UpdLoad
    \/ UpdQuote
    \/ UpdRetry
    \/ UpdCommit
    \/ SubscribeTask
    \/ FeedQuote
    \/ FeedTrade

SpecPair == InitPair /\ [][NextPair]_vars

\* the step just taken met a failure: an order the broker refused, or an entry
\* check that got no underlying price, no option or no quote
FailureMet ==
    \/ obs'.op = "execute_trade" /\ obs'.sent /\ ~obs'.ret
    \/ obs'.op = "check_entry_signal" /\ obs'.quote = <<>>

\* C26: a failure met while one ticker or option type is processed ends neither
\* the tick nor its remaining work: the tickers still to come are processed and
\* the mark-to-market step runs, so the step that meets the failure never
\* leaves run_cycle.
FailureDoesNotEndTick ==
    [][(cyc.pc # "idle" /\ FailureMet) => cyc'.pc # "idle"]_vars

\* the thread is inside check_entry_signal or execute_trade
EntryPcs == {"und", "und_retry", "opt", "quote_retry", "exec"}

\* the entry check under way (with its execution) ends with this step
CheckEnds ==
    /\ cyc.pc \in EntryPcs
    /\ cyc'.pc \notin EntryPcs \/ cyc'.otype # cyc.otype \/ cyc'.cfg # cyc.cfg

\* a tick that goes past its gates takes up every enabled row, in table order
AllEnabledTaken ==
    (cyc.pc = "idle" /\ cyc'.pc # "idle") =>
        <<cyc'.cfg>> \o cyc'.queue = EnabledRows(TickerOrder)

\* the PUT check of a ticker follows its CALL check, however that ended
PutFollowsCall ==
    (CheckEnds /\ cyc.otype = "CALL") =>
        cyc'.pc = "und" /\ cyc'.otype = "PUT" /\ cyc'.cfg = cyc.cfg /\ cyc'.queue = cyc.queue

\* after a ticker's PUT check comes the CALL check of the next row taken up,
\* and mark-to-market after the last
NextRowFollowsPut ==
    (CheckEnds /\ cyc.otype = "PUT") =>
        IF cyc.queue = <<>> THEN cyc'.pc = "upd"
        ELSE cyc'.pc = "und" /\ cyc'.otype = "CALL" /\ cyc'.cfg = Head(cyc.queue)
             /\ cyc'.queue = Tail(cyc.queue)

\* C27: in a tick inside the trading window both the CALL and the PUT entry
\* check are made for every ticker enabled when the tick starts, the PUT check
\* whatever the CALL check and its execution came to; no check and no order is
\* made for a ticker whose enabled flag is false.
BothChecksForEveryEnabledTicker ==
    /\ [](cyc.pc \in EntryPcs => tickers[cyc.cfg.symbol].enabled)
    /\ [][AllEnabledTaken /\ PutFollowsCall /\ NextRowFollowsPut]_vars

\* the same without the step from one ticker to the next
ChecksWithinOneTicker ==
    /\ [](cyc.pc \in EntryPcs => tickers[cyc.cfg.symbol].enabled)
    /\ [][AllEnabledTaken /\ PutFollowsCall
          /\ (cyc.queue = <<>> => NextRowFollowsPut)]_vars

\* execute_trade ends: it does not run again for the signal, and the thread
\* leaves the (ticker, option type) it was called for
ExecutedOnce ==
    (cyc.pc = "exec" /\ cyc' # cyc) =>
        /\ obs'.op = "execute_trade" /\ obs'.signal = cyc.sig[1]
        /\ cyc'.pc # "exec"
        /\ <<cyc'.cfg, cyc'.otype>> # <<cyc.cfg, cyc.otype>>

\* within a tick the thread moves from a ticker's CALL to its PUT and from
\* there to a row not yet taken up: no (ticker, option type) comes twice
PairsMoveForward ==
    (cyc.pc \in EntryPcs /\ cyc'.pc \in EntryPcs) =>
        \/ cyc'.cfg = cyc.cfg /\ cyc'.queue = cyc.queue /\ cyc'.otype = cyc.otype
        \/ cyc'.cfg = cyc.cfg /\ cyc'.queue = cyc.queue
           /\ cyc.otype = "CALL" /\ cyc'.otype = "PUT"
        \/ cyc.queue # <<>> /\ cyc'.cfg = Head(cyc.queue) /\ cyc'.queue = Tail(cyc.queue)
           /\ cyc'.otype = "CALL"

\* execute_trade is entered only with the signal the entry check of this tick
\* has just returned, its threshold met by the prices of that check
SignalIsOfThisTick ==
    /\ (cyc.pc # "exec" /\ cyc'.pc = "exec") =>
          /\ obs'.op = "check_entry_signal" /\ obs'.sig # <<>> /\ cyc'.sig = obs'.sig
          /\ obs'.ticker = cyc.cfg.symbol /\ obs'.otype = cyc.otype
          /\ ThresholdMet(obs'.quote[1].mark, obs'.open_price, obs'.threshold)
    /\ (cyc.pc = "idle" /\ cyc'.pc # "idle") => cyc'.sig = <<>>

\* the rows still to come do not hold the ticker under way
RowsAheadDiffer ==
    cyc.pc \in EntryPcs =>
        \A i \in 1..Len(cyc.queue) : cyc.queue[i].symbol # cyc.cfg.symbol

\* C28: within one tick at most one order request is sent per (ticker, option
\* type); after a failed placement no further order is sent for that signal in
\* the tick, and a later tick sends an order only for a signal its own entry
\* check has returned: signals are not carried from tick to tick.
NoOrderRetry ==
    /\ []RowsAheadDiffer
    /\ [][ExecutedOnce /\ PairsMoveForward /\ SignalIsOfThisTick]_vars

\* the broker refused the CALL order and the thread went on to the PUT check
RefusedOrderNotRetried ==
    /\ obs.op = "execute_trade" /\ obs.sent /\ ~obs.ret
    /\ obs.signal.option_type = "CALL"
    /\ cyc.pc = "und" /\ cyc.otype = "PUT" /\ cyc.cfg.symbol = obs.signal.ticker

-----------------------------------------------------------------------------
(* The entry check when no at-the-money option is found: the chain request  *)
(* fails, the chain is empty, or no instrument of the type expires within   *)
(* the range of days                                                         *)

\* the opening slot of the day after QQQ's only expiration
ClockAfterExpiry == 3 * 2 + 1

\* two tickers as in InitPair; get_option_chain answers the same way throughout a
\* behaviour, and a behaviour starts before or after QQQ's expiration
InitChain ==
    /\ InitEngine
    /\ clock \in {1, ClockAfterExpiry}
    /\ tickers \in [{"SPY", "QQQ"} -> [enabled : BOOLEAN, threshold : {50},
                                       max_positions : {2}, capital_per_trade : {500}]]
    /\ tickers["QQQ"].enabled
    /\ \E fetch \in ChainAnswers :
         market = [option |-> {100500}, underlying |-> {101000}, order |-> {"ok_id"},
                   chain |-> {fetch}, commit |-> CommitAnswers]
    /\ price_cache = (<<"SPY", Occ("SPY", "C", 100000), 1>> :> OpenRow(100000, 100500))
                  @@ (<<"SPY", Occ("SPY", "P", 100000), 1>> :> OpenRow(100000, 100500))
    /\ trades = <<EarlierTrade>>

SpecChain == InitChain /\ [][NextPair]_vars

\* no instrument of the type wanted expires within the range of days
NoInstrument(c) == AtmCandidates(ChainOf(c.cfg.symbol), c.otype, Today) = {}

\* find_atm_option is called and one of the three cases holds
AtmCallFindsNothing ==
    /\ cyc.pc = "opt" /\ cyc' # cyc
    /\ market.chain \in {{"fail"}, {"empty"}} \/ NoInstrument(cyc)

\* check_entry_signal returns None for this option type: no quote is
\* asked for, no open price stored, nothing handed to execute_trade
EntryCheckReturnsNone ==
    /\ obs'.op = "check_entry_signal" /\ obs'.opt = <<>> /\ obs'.sig = <<>>
    /\ cyc'.pc \notin {"quote_retry", "exec"} /\ cyc'.sig = <<>>
    /\ loop_queue' = loop_queue
    /\ price_cache' = price_cache
    /\ trades' = trades

\* execute_trade is entered only with an option find_atm_option could return
ExecuteHasInstrument ==
    cyc.pc = "exec" => (market.chain = {"ok"} /\ ~NoInstrument(cyc))

\* C29: find_atm_option returns None, raising nothing, when the chain request
\* fails, when the chain is empty and when no instrument of the requested type
\* expires within the range of days; check_entry_signal then returns no signal
\* and no order is placed.
NoOptionNoSignal ==
    /\ []ExecuteHasInstrument
    /\ [][AtmCallFindsNothing => EntryCheckReturnsNone]_vars

\* the chain was fetched and QQQ's only call had expired: the entry check for
\* the call ended with no option and no signal
ExpiredChainGaveNoSignal ==
    /\ market.chain = {"ok"}
    /\ Today > 2
    /\ obs.op = "check_entry_signal" /\ obs.ticker = "QQQ" /\ obs.otype = "CALL"
    /\ obs.und > 0 /\ obs.opt = <<>> /\ obs.sig = <<>>

-----------------------------------------------------------------------------
(* The waits of get_underlying_price and get_option_quote: the engine       *)
(* thread sleeps and reads, the streaming loop may run, stall or end        *)

InitWait ==
    /\ InitEngine
    /\ clock = 0
    /\ tickers \in [{"SPY"} -> [enabled : {TRUE}, threshold : {50}, max_positions : {0},
                                capital_per_trade : {500}]]
    /\ market = [option |-> {100500}, underlying |-> {101000}, order |-> {"ok_id"},
                 chain |-> ChainAnswers, commit |-> CommitAnswers]
    /\ price_cache = <<>>
    /\ trades = <<>>

NextWait ==
    \/ Start
    \/ AdvanceClock
    \/ RunCycle
    \/ CheckUnderlying
    \/ UnderlyingRetry
    \/ CheckOption
    \/ QuoteRetry
    \/ UpdLoad
    \/ SubscribeTask
    \/ FeedQuote
    \/ FeedTrade
    \/ TransportDrop
    \/ HandlerEnd

SpecWait == InitWait /\ [][NextWait]_vars

\* the engine thread goes on by itself: time.sleep returns and nothing else is
\* waited for; the streaming loop is given no fairness at all
SpecWaitFair ==
    /\ SpecWait
    /\ WF_vars(CheckUnderlying) /\ WF_vars(UnderlyingRetry) /\ WF_vars(QuoteRetry)

\* a step of the engine thread inside one of the two reads
ReadStep == cyc.pc \in {"und", "und_retry", "opt", "quote_retry"} /\ cyc' # cyc

\* the streamer symbols of the instruments of root's chain
ChainStreamers(root) ==
    UNION {{StreamerOf(ChainOf(root)[d][i].streamer_symbol) : i \in 1..Len(ChainOf(root)[d])} :
             d \in DOMAIN ChainOf(root)}

\* the streaming side is left alone but for one request put in the loop's queue
SubscribeIsFireAndForget ==
    ReadStep =>
        /\ UNCHANGED <<conVars, subscribed_symbols, quote_cache>>
        /\ \/ loop_queue' = loop_queue
           \/ /\ ws_loop = "running"
              /\ \E symbol \in {Eq(cyc.cfg.symbol)} \cup ChainStreamers(cyc.cfg.symbol) :
                   /\ symbol \notin subscribed_symbols
                   /\ loop_queue' = Append(loop_queue, symbol)

\* each function reads the cache once more at most, and the second read ends it
SecondReadIsLast ==
    /\ (ReadStep /\ cyc.pc = "und_retry") => cyc'.pc \notin {"und_retry"}
    /\ (ReadStep /\ cyc.pc = "quote_retry") => cyc'.pc \notin {"quote_retry", "opt"}
    /\ (ReadStep /\ cyc.pc = "und") => cyc'.pc \in {"und_retry", "opt", "und", "upd", "idle"}

\* no entry after the wait: None is returned, and the entry check ends unsignalled
AbsentAfterWaitIsNone ==
    /\ (ReadStep /\ cyc.pc = "und_retry" /\ Eq(cyc.cfg.symbol) \notin DOMAIN quote_cache)
          => /\ obs'.op = "check_entry_signal" /\ obs'.und = 0 /\ obs'.sig = <<>>
             /\ cyc' = AfterType(cyc)
    /\ (ReadStep /\ cyc.pc = "quote_retry"
          /\ StreamerOf(cyc.opt[1].streamer_symbol) \notin DOMAIN quote_cache)
          => /\ obs'.op = "check_entry_signal" /\ obs'.quote = <<>> /\ obs'.sig = <<>>
             /\ cyc' = AfterType(cyc)

\* the entry check of the option type t is inside get_underlying_price
InUnderlying(t) == cyc.pc \in {"und", "und_retry"} /\ cyc.otype = t

\* get_option_quote has found no entry and sleeps before its second read
InOptionQuoteWait == cyc.pc = "quote_retry"

\* C30: get_underlying_price and get_option_quote return after at most two
\* reads of the cache whatever the streaming loop does (the subscription is only
\* put in the loop's queue, its completion is never waited for), and they
\* return None when the cache has no entry for the symbol after the wait.
BoundedWait ==
    /\ [][SubscribeIsFireAndForget /\ SecondReadIsLast /\ AbsentAfterWaitIsNone]_vars
    /\ \A t \in {"CALL", "PUT"} :
         (InUnderlying(t) /\ IntentFits(Eq(cyc.cfg.symbol))) ~> ~InUnderlying(t)
    /\ InOptionQuoteWait ~> ~InOptionQuoteWait

\* the request is still in the queue of a running loop that never served it, and
\* get_underlying_price has returned None after its wait
ReturnedNoneRequestPending ==
    /\ ws_loop = "running" /\ loop_queue = <<Eq("SPY")>>
    /\ Eq("SPY") \notin DOMAIN quote_cache
    /\ obs.op = "check_entry_signal" /\ obs.und = 0 /\ obs.otype = "CALL"

-----------------------------------------------------------------------------
(* The keepalive task: _keepalive_loop next to the message loop              *)

\* KEEPALIVE frames followed per connection
MaxKeepalive == 2

KeepaliveCount == Cardinality({i \in 1..Len(sent) : sent[i].type = "KEEPALIVE"})

\* variant: the task ends after its first frame
KeepaliveLoopOnce ==
    /\ keepalive_task = "running"
    /\ KeepaliveCount < MaxKeepalive
    /\ keepalive_task' = "ended"
    /\ sent' = IF transport = "up" THEN Append(sent, Frame("KEEPALIVE")) ELSE sent
    /\ UNCHANGED <<dbVars, session_token, token_expires_at, now, quote_cache,
                   subscribed_symbols, ws_loop, loop_queue, ws, hs, transport, rcvd,
                   conn, closed_with, market, callers, bot>>

\* _keepalive_loop: asyncio.sleep(30) is over and the frame is sent; a send on a
\* closed connection raises, which ends the task
KeepaliveLoop ==
    /\ keepalive_task = "running"
    /\ KeepaliveCount < MaxKeepalive
    /\ IF transport = "up"
       THEN /\ sent' = Append(sent, Frame("KEEPALIVE"))
            /\ UNCHANGED keepalive_task
       ELSE /\ keepalive_task' = "ended"
            /\ UNCHANGED sent
    /\ UNCHANGED <<dbVars, session_token, token_expires_at, now, quote_cache,
                   subscribed_symbols, ws_loop, loop_queue, ws, hs, transport, rcvd,
                   conn, closed_with, market, callers, bot>>

NextKeepalive ==
    \/ Connect
    \/ WsOpen
    \/ HandshakeRecv
    \/ TransportDrop
    \/ HandlerEnd
    \/ KeepaliveLoop
    \/ \E symbol \in QuotedSymbols : AskQuote(symbol)
    \/ SubscribeTask

SpecKeepalive == InitWs /\ [][NextKeepalive]_vars

\* the loop of the streaming thread runs the timers that are due
SpecKeepaliveFair == SpecKeepalive /\ WF_vars(KeepaliveLoop)

Streaming == hs = "streaming" /\ transport = "up"

\* the task is alive for as long as the message loop reads an open connection
KeepaliveAliveWhileStreaming == Streaming => keepalive_task = "running"

\* a KEEPALIVE frame goes out only in STREAMING, one frame per interval
KeepaliveOnlyInStreaming ==
    KeepaliveCount' # KeepaliveCount =>
        \/ /\ hs = "streaming" /\ hs' = "streaming"
           /\ sent' = Append(sent, Frame("KEEPALIVE"))
        \/ KeepaliveCount' = 0

\* C31: from the moment the handler is in STREAMING until the connection is
\* closed, the keepalive task stays alive and sends one KEEPALIVE frame at each
\* of its intervals; no KEEPALIVE frame is sent outside STREAMING.
KeepaliveWhileStreaming ==
    /\ []KeepaliveAliveWhileStreaming
    /\ [][KeepaliveOnlyInStreaming]_vars
    /\ \A k \in 0..(MaxKeepalive - 1) :
         (Streaming /\ KeepaliveCount = k) ~> (~Streaming \/ KeepaliveCount > k)

\* a second KEEPALIVE frame was sent on a connection that still streams, after
\* a subscription frame
KeepaliveSentTwice ==
    /\ Streaming
    /\ KeepaliveCount >= 2
    /\ \E i \in 1..Len(sent) : sent[i].type = "FEED_SUBSCRIPTION"

-----------------------------------------------------------------------------
(* Numeric fields off the wire: a number, the string "NaN", null, or no      *)
(* field at all, in FEED_DATA events and in the answer of the balances       *)
(* request                                                                   *)

WireValues == {NumberField(1000), NaNField, NullField}

\* the first n fields of a Trade event: eventType, eventSymbol, price, size,
\* dayVolume
TradeGroup(g) ==
    SubSeq(<<TypeField, SymbolField(g.symbol), g.price, NumberField(1), NumberField(1)>>,
           1, g.n)

\* _handle_message, the while loop over the events of a Trade frame
RECURSIVE ParseTrades(_, _, _)
ParseTrades(events, i, cache) ==
    IF i > Len(events) THEN cache
    ELSE IF events[i].k # "type" THEN ParseTrades(events, i + 1, cache)
    ELSE IF i + 2 > Len(events) THEN cache
    ELSE IF ~Parses(events[i + 2]) THEN cache
    ELSE LET f == events[i + 1]
             symbol == IF f.k = "symbol" THEN f.v ELSE f
         IN  ParseTrades(events, i + 5, ApplyTrade(cache, symbol, Float(events[i + 2])))

\* the message loop: one FEED_DATA frame holding one Trade event
HandleTradeFrame(g) ==
    /\ hs = "streaming" /\ transport = "up"
    /\ quote_cache' = ParseTrades(TradeGroup(g), 1, quote_cache)
    /\ obs' = [op |-> "FEED_DATA_TRADE", group |-> g, before |-> quote_cache]
    /\ UNCHANGED <<running, open_prices_set, clock, tickers, trades, price_cache, cyc,
                   session_token, token_expires_at, now, subscribed_symbols,
                   loop_queue, conVars>>

WireQuoteGroups ==
    [symbol : {Dx("SPY", "C", 100, 0)}, bid : WireValues, ask : WireValues, n : {3, 6}]

WireTradeGroups == [symbol : {Eq("SPY")}, price : WireValues, n : {2, 5}]

\* the keys get_account_balance reads, and the key each one is returned under
BalanceKeys ==
    {"cash-balance", "derivative-buying-power", "net-liquidating-value",
     "realized-day-gain-loss"}

BalanceName(key) ==
    CASE key = "cash-balance" -> "cash"
      [] key = "derivative-buying-power" -> "buying_power"
      [] key = "net-liquidating-value" -> "equity"
      [] OTHER -> "pnl_today"

\* the object under "data" of the answer: each key absent or holding a wire
\* value, the last two a number when they are there
BalanceBodies ==
    {body \in UNION {[keys -> WireValues] : keys \in SUBSET BalanceKeys} :
        \A key \in DOMAIN body \cap {"net-liquidating-value", "realized-day-gain-loss"} :
            body[key].k = "number"}

\* variant: a value that is no number is replaced by 0
BalanceGetCoerced(balance_data, key) ==
    IF key \in DOMAIN balance_data /\ balance_data[key].k = "number"
    THEN balance_data[key] ELSE NumberField(0)

\* balance_data.get(key, 0)
BalanceGet(balance_data, key) ==
    IF key \in DOMAIN balance_data THEN balance_data[key] ELSE NumberField(0)

\* get_account_balance
GetAccountBalance ==
    /\ \E ans \in ExchangeAnswers, resp \in {"status", "value"},
          balance_data \in BalanceBodies :
         LET auth == EnsureAuthenticated(ans)
         IN  /\ session_token' = auth.token
             /\ token_expires_at' = auth.expires
             /\ obs' = [op |-> "get_account_balance", body |-> balance_data,
                        answered |-> auth.ok /\ resp = "value",
                        ret |-> IF auth.ok /\ resp = "value"
                                THEN [name \in {BalanceName(key) : key \in BalanceKeys} |->
                                        BalanceGet(balance_data,
                                                   CHOOSE key \in BalanceKeys :
                                                       BalanceName(key) = name)]
                                ELSE FailureValue("get_account_balance")]
    /\ UNCHANGED <<running, open_prices_set, clock, tickers, trades, price_cache, cyc,
                   now, quote_cache, subscribed_symbols, loop_queue, conVars>>

NextNumeric ==
    \/ \E g \in WireQuoteGroups : HandleFrame(<<g>>)
    \/ \E g \in WireTradeGroups : HandleTradeFrame(g)
    \/ GetAccountBalance

SpecNumeric == InitCache /\ [][NextNumeric]_vars

\* the field is absent, null or the string "NaN"
NoNumber(fields, key) == key \notin DOMAIN fields \/ fields[key].k \in {"NaN", "null"}

\* a price of a streamed event that is null or "NaN" is stored as 0, and the
\* message loop goes on
StreamedPricesCoerced ==
    /\ (obs.op = "FEED_DATA" /\ obs.groups[1].n = 6) =>
          LET g == obs.groups[1]
          IN  /\ g.symbol \in DOMAIN quote_cache
              /\ quote_cache[g.symbol].bid = (IF g.bid.k = "number" THEN g.bid.v ELSE 0)
              /\ quote_cache[g.symbol].ask = (IF g.ask.k = "number" THEN g.ask.v ELSE 0)
              /\ hs = "streaming"
    /\ (obs.op = "FEED_DATA_TRADE" /\ obs.group.n = 5) =>
          LET g == obs.group
          IN  /\ g.symbol \in DOMAIN quote_cache
              /\ quote_cache[g.symbol].last = (IF g.price.k = "number" THEN g.price.v ELSE 0)
              /\ hs = "streaming"

\* every field get_account_balance returns is a number, 0 where the answer had
\* no number
BalanceFieldsCoerced ==
    (obs.op = "get_account_balance" /\ obs.answered) =>
        \A key \in BalanceKeys :
            /\ obs.ret[BalanceName(key)].k = "number"
            /\ NoNumber(obs.body, key) => obs.ret[BalanceName(key)].v = 0

\* C32: a numeric field of the wire that is missing, null or the string "NaN"
\* becomes 0, never a fault and never a value that is no number: the bid, ask
\* and trade price of streamed events, and the fields get_account_balance
\* returns.
NumericFieldsCoerced == StreamedPricesCoerced /\ BalanceFieldsCoerced

-----------------------------------------------------------------------------
(* stop() followed by start() *)

\* start() has returned on a bot that stop() had stopped before
Restarted == bot.running /\ bot.pc = "idle"

\* C33: after stop() and then start() on an initialized bot the trading-cycle
\* job is scheduled again and run_cycle is invoked at each interval: whenever
\* the bot's running flag is true, the scheduler runs, holds the job, and the
\* job can come due.
RunningDeliversTicks ==
    Restarted => (bot.scheduler = "running" /\ bot.job /\ ENABLED TimerDue)

-----------------------------------------------------------------------------
(* Subscriptions and the handshake *)

\* the step sends a FEED_SUBSCRIPTION frame
SubscriptionSent ==
    /\ Len(sent') = Len(sent) + 1
    /\ sent'[Len(sent')].type = "FEED_SUBSCRIPTION"

\* C34: no FEED_SUBSCRIPTION frame is sent on a connection before its handshake
\* is over (FEED_SETUP acknowledged), even when a quote for a new symbol is
\* asked for while the handshake is in progress.
NoSubscriptionBeforeHandshake == [][SubscriptionSent => hs = "streaming"]_vars

-----------------------------------------------------------------------------
(* The subscribed set against the frames sent *)

\* a call of _subscribe_symbols that sent nothing
SubscribeSentNothing == SubscribeStep /\ sent' = sent

\* C35: a symbol is in subscribed_symbols only if a FEED_SUBSCRIPTION frame
\* holding it was sent on the connection; a call of _subscribe_symbols that
\* fails, for want of a connection or because the send raises, leaves
\* subscribed_symbols as it was.
SubscribedOnlyIfSent ==
    /\ [](subscribed_symbols \subseteq SentSymbols)
    /\ [][SubscribeSentNothing => subscribed_symbols' = subscribed_symbols]_vars

-----------------------------------------------------------------------------
(* The entry check on a cache entry without prices: the option's Quote events *)
(* carry NaN (stored as 0) before they carry prices                          *)

InitFloor ==
    /\ InitEngine
    /\ clock = 0
    /\ tickers \in [{"SPY"} -> [enabled : {TRUE}, threshold : {50}, max_positions : {0},
                                capital_per_trade : {500}]]
    /\ market = [option |-> {0, 100500}, underlying |-> {101000}, order |-> {"ok_id"},
                 chain |-> {"ok"}, commit |-> CommitAnswers]
    /\ price_cache = <<>>
    /\ trades = <<>>

SpecFloor == InitFloor /\ [][NextSignal]_vars

\* the quote was read from an entry with no positive bid/ask pair and no
\* positive last: its mark is the floor
FloorQuote(q) == ~(q.bid > 0 /\ q.ask > 0) /\ q.last <= 0

\* C36: no open price is established from the floor mark: when the option's
\* cache entry holds no positive bid/ask pair and no positive last,
\* check_entry_signal stores no open price row and returns no signal, so no
\* order follows.
OpenPriceNeverFromFloor ==
    [][(DecideStep /\ FloorQuote(obs'.quote[1])) =>
          /\ DOMAIN price_cache' = DOMAIN price_cache
          /\ obs'.sig = <<>>
          /\ cyc'.pc # "exec"]_vars

-----------------------------------------------------------------------------
(* Orders the broker accepted and the trade rows that record them *)

\* execute_trade has just returned after place_order gave an order id
OrderAccepted == ExecuteTradeStep /\ obs'.op = "execute_trade" /\ obs'.order_id # None

\* the rows that carry the order id just returned are the old ones and one more
PositionRecorded ==
    /\ Len(trades') = Len(trades) + 1
    /\ trades'[Len(trades')].order_id = obs'.order_id
    /\ trades'[Len(trades')].status = "OPEN"
    /\ SubSeq(trades', 1, Len(trades)) = trades

\* C37: orders and positions correspond one to one: whenever execute_trade
\* returns after the broker accepted its buy order, exactly one new trade row
\* carries the order, also when recording the row failed after the placement.
OrdersMatchPositions == [][OrderAccepted => PositionRecorded]_vars

-----------------------------------------------------------------------------
(* A closed position under the mark-to-market pass *)

\* the row i, once CLOSED, keeps its status, exit price and P&L in the step
StaysClosed(i) ==
    trades[i].status = "CLOSED" =>
        /\ trades'[i].status = "CLOSED"
        /\ trades'[i].exit_price = trades[i].exit_price
        /\ trades'[i].pnl = trades[i].pnl

\* C38: a CLOSED position is final: no step of the engine changes the status,
\* the exit price or the P&L of a trade that is CLOSED, also when the
\* mark-to-market pass runs while the position is closed through the API.
ClosedIsFinal == [][\A i \in 1..Len(trades) : StaysClosed(i)]_vars

-----------------------------------------------------------------------------
(* What connect() returns, against what the handler thread has reached *)

\* variant: connect() returns whether the handler is streaming
ConnectReturnChecked ==
    /\ obs.op = "connect" /\ obs.pc = "sleep"
    /\ obs' = [op |-> "connect", pc |-> "returned",
               ret |-> ws = "open" /\ hs = "streaming",
               engine |-> ws = "open" /\ hs = "streaming", ws |-> ws, hs |-> hs]
    /\ UNCHANGED <<running, open_prices_set, clock, tickers, trades, price_cache, cyc,
                   session_token, token_expires_at, now, quote_cache,
                   subscribed_symbols, loop_queue, conVars>>

\* connect(): the sleep of _start_websocket_thread is over and connect returns
\* True; TradingBot.initialize goes on to build the engine on the client
ConnectReturn ==
    /\ obs.op = "connect" /\ obs.pc = "sleep"
    /\ obs' = [op |-> "connect", pc |-> "returned", ret |-> TRUE, engine |-> TRUE,
               ws |-> ws, hs |-> hs]
    /\ UNCHANGED <<running, open_prices_set, clock, tickers, trades, price_cache, cyc,
                   session_token, token_expires_at, now, quote_cache,
                   subscribed_symbols, loop_queue, conVars>>

NextConnect ==
    \/ Connect
    \/ ConnectReturn
    \/ WsOpen
    \/ HandshakeRecv
    \/ TransportDrop
    \/ HandlerEnd

SpecConnect == InitWs /\ [][NextConnect]_vars

ConnectReturned == obs.op = "connect" /\ obs.pc = "returned"

\* TradingBot.initialize went past `if not self.client.connect()`
EngineBuilt == "engine" \in DOMAIN obs /\ obs.engine

\* C39: connect() returns true only when the streaming connection is open and
\* the handshake has completed; when opening the transport or a handshake step
\* failed it returns false, and the engine is built only on a true return.
ConnectTrueMeansStreaming ==
    (ConnectReturned /\ (obs.ret \/ EngineBuilt)) =>
        (obs.ws = "open" /\ obs.hs = "streaming")

-----------------------------------------------------------------------------
(* The engine's reads of the quote cache after the streaming handler has exited *)

\* the handler has exited: ws is None and nothing feeds the cache any more
DeadStream == hs = "done" /\ ws = "none"

\* get_underlying_price returns a price to check_entry_signal
UnderlyingReturned == cyc.pc \in {"und", "und_retry"} /\ cyc'.pc = "opt"

\* update_positions gets a quote with a positive mark for a loaded trade
PositionMarked == cyc.pc \in {"upd_quote", "upd_retry"} /\ cyc'.dirty # cyc.dirty

\* C40: once the streaming connection has terminated, get_underlying_price and
\* get_option_quote return no quote cached before the termination: no entry
\* check gets a price or a quote (so no signal fires and no order follows) and
\* no position is marked.
NoTradingOnDeadStream ==
    [][DeadStream =>
          /\ ~UnderlyingReturned
          /\ ~DecideStep
          /\ ~PositionMarked]_vars



====
